---- MODULE Spec2Model ----
(***************************************************************************)
(* BeckhoffADSInterface (src/beckhoff_ads_interface.py): the trigger /     *)
(* handshake engine between the measurement application and the PLC.      *)
(*                                                                         *)
(* Three threads of control are modelled.                                  *)
(*   - the poll thread (_poll_loop), one step per statement that touches   *)
(*     shared state or the controller;                                     *)
(*   - the host thread (the Tk main thread of chrocodile_gui.py), which    *)
(*     calls start_polling, stop_polling and write_measurement_result,     *)
(*     the latter one step per statement;                                  *)
(*   - the controller (PLC), which changes its own variables at any time.  *)
(* A call of _safe_write is one step: the underlying write is raced        *)
(* against the timer and the circuit-breaker bookkeeping is applied.       *)
(*                                                                         *)
(* Specifications:                                                         *)
(*   Spec         the three threads, every response of the environment     *)
(*   SpecBreaker  _safe_write and the calls around it, one caller          *)
(*   SpecHeld     Spec, observed for a trigger raised once and held        *)
(*   SpecEpisode  Spec, observed for a lower/raise during a measurement    *)
(*   SpecLive     Spec with fair threads, observed for the next cycle      *)
(*   SpecSession  connect, disconnect and stop_polling, call by call       *)
(*   SpecStop     Spec with the join of stop_polling timing out            *)
(*   SpecFields   Spec, observed for the result fields of one publish      *)
(*   SpecWrite    _safe_write with its write thread and abandoned writes   *)
(*   SpecCycle    Spec with a fair poll thread, observed for failures      *)
(*   SpecLost     Spec with fair threads, observed for a raise while quiet *)
(*   SpecFrozen   Spec, observed for a failed trigger read of a publish    *)
(*   SpecLoops    start_polling and stop_polling with two poll threads     *)
(*   SpecRestart  Spec with fair threads, observed for a restart           *)
(*   SpecReconnect  Spec with the session closed while polling runs        *)
(*   SpecCont     polling with the controller's continuous-control flags   *)
(*   SpecStartEdge  SpecCont, observed for one rising edge of the start    *)
(*                flag                                                     *)
(*   SpecRaised   Spec, observed for a callback that raised                *)
(*   SpecFlags    SpecCont, observed for the transitions of both flags     *)
(*   SpecStart    start_polling with its return value, two poll threads    *)
(*   SpecRace     _safe_write statement by statement, two callers          *)
(*   SpecAck      Spec, observed for the read of the acknowledgment        *)
(***************************************************************************)
EXTENDS Integers, Sequences, FiniteSets, TLC

\* self._max_consecutive_timeouts
max_consecutive_timeouts == 3

\* history counters stop counting at this value
MaxDispatch == 2

\* the variables _safe_write is called with
WriteVars == {"busy", "ready", "error", "thickness", "peak1", "peak2", "count"}

\* the variables of the controller this model keeps a value for
PlcVars == {"trigger", "busy", "ready", "start_cont", "stop_cont"}

VARIABLES
    plc,                      \* the controller's variables, by name
    plc_open,                 \* self.plc is not None and self.plc.is_open
    running,                  \* self.running
    last_trigger_state,       \* self.last_trigger_state
    measurement_in_progress,  \* self.measurement_in_progress
    last_start_cont_state,    \* self.last_start_cont_state
    last_stop_cont_state,     \* self.last_stop_cont_state
    write_timeout_count,      \* self._write_timeout_count (absent key = 0)
    disabled_variables,       \* self._disabled_variables
    pollPc,                   \* the poll thread's position in _poll_loop
    trigger,                  \* _poll_loop's local `trigger`
    hostPc,                   \* the host thread's position
    current_trigger,          \* write_measurement_result's local `current_trigger`
    \* ---- history variables (observation only, never read by an action's guard)
    dispatches,               \* callback("trigger_measurement") invocations
    in_progress_dispatches,   \* ... since measurement_in_progress was last false
    pubEv,                    \* what the running write_measurement_result call did
    seed,                     \* the start-up seeding of last_trigger_state
    last_call,                \* the most recent _safe_write call (SpecBreaker)
    epi,                      \* how far the scenario a specification follows has come
    host_call,                \* the most recent call of the session's life cycle
    \* ---- the error texts (followed in SpecBreaker and SpecSession only)
    last_connection_error,    \* self._last_connection_error
    last_polling_error,       \* self._last_polling_error
    \* ---- further threads (followed in SpecWrite, SpecLoops and SpecRace only)
    write_pc,                 \* the position of the caller of _safe_write (SpecWrite)
    write_threads,            \* the write threads of _safe_write that have not ended
    poll2,                    \* a second poll thread: its position and its `trigger`
    writers                   \* the calls of _safe_write under way, by thread (SpecRace)

coreVars == <<plc, plc_open, running, last_trigger_state, measurement_in_progress,
              last_start_cont_state, last_stop_cont_state, write_timeout_count,
              disabled_variables, pollPc, trigger, hostPc, current_trigger>>

histVars == <<dispatches, in_progress_dispatches, pubEv, seed>>

errVars == <<last_connection_error, last_polling_error>>

threadVars == <<write_pc, write_threads, poll2, writers>>

vars == <<coreVars, histVars, last_call, epi, host_call, errVars, threadVars>>

Min(a, b) == IF a < b THEN a ELSE b

\* last_call: the variable written, what its underlying write does when it is made
\* (resp), whether the session was open at the call, whether write_by_name was called
\* (io), and the value returned (ret)
NoCall == [var |-> "-", resp |-> "-", open |-> FALSE, io |-> FALSE, ret |-> FALSE]

\* a text is a sequence of its parts; None is the empty sequence (every text the
\* code stores has a part).  A returned value is <<value>>, a return of None <<>>.
None == <<>>

\* host_call: the method called (op), whether the session was open at the call,
\* what its close() did and how many times close() was called, what the first and
\* the second open() did and how many times open() was called, the value returned,
\* and the count passed to the log callback
NoHostCall == [op |-> "-", open |-> FALSE, close |-> "-", closes |-> 0, first |-> "-",
               retry |-> "-", opens |-> 0, ret |-> None, logged |-> None]

\* the threads that call _safe_write: the poll thread (lines 553-569) and the host
\* thread inside write_measurement_result (lines 737-791)
Callers == {"poll", "host"}

\* a thread that is not inside _safe_write; otherwise pc is its position, var the
\* variable_name of the call and n the value it last read from the counter
NoWriter == [pc |-> "idle", var |-> "-", value |-> FALSE, n |-> 0]

----------------------------------------------------------------------------
(* __init__ *)

Init ==
    /\ plc = [v \in PlcVars |-> FALSE]
    /\ plc_open = FALSE
    /\ running = FALSE
    /\ last_trigger_state = FALSE
    /\ measurement_in_progress = FALSE
    /\ last_start_cont_state = FALSE
    /\ last_stop_cont_state = FALSE
    /\ write_timeout_count = [v \in WriteVars |-> 0]
    /\ disabled_variables = {}
    /\ pollPc = "none"
    /\ trigger = FALSE
    /\ hostPc = "idle"
    /\ current_trigger = FALSE
    /\ dispatches = 0
    /\ in_progress_dispatches = 0
    /\ pubEv = <<>>
    /\ seed = "off"
    /\ last_call = NoCall
    /\ epi = "none"
    /\ host_call = NoHostCall
    /\ last_connection_error = None
    /\ last_polling_error = None
    /\ write_pc = "idle"
    /\ write_threads = <<>>
    /\ poll2 = [pc |-> "none", trigger |-> FALSE, current |-> FALSE]
    /\ writers = [c \in Callers |-> NoWriter]

----------------------------------------------------------------------------
(* _safe_write: the bounded write and the per-variable circuit breaker.    *)
(* resp is what the underlying write_by_name does within the timeout:      *)
(* "ok" (returns), "raise" (raises), "timeout" (still running when the     *)
(* join times out).  The result: ret, the value returned; io, whether      *)
(* write_by_name was called; count and disabled, the breaker afterwards.   *)

\* variants: a threshold one later, and a raised exception that keeps the counter
safe_write_late(variable_name, resp) ==
    IF ~plc_open \/ variable_name \in disabled_variables
    THEN [ret |-> FALSE, io |-> FALSE,
          count |-> write_timeout_count, disabled |-> disabled_variables]
    ELSE IF resp = "timeout"
    THEN LET c == [write_timeout_count EXCEPT ![variable_name] = @ + 1] IN
         [ret |-> FALSE, io |-> TRUE, count |-> c,
          disabled |-> IF c[variable_name] > max_consecutive_timeouts
                       THEN disabled_variables \cup {variable_name}
                       ELSE disabled_variables]
    ELSE IF resp = "raise"
    THEN [ret |-> FALSE, io |-> TRUE,
          count |-> [write_timeout_count EXCEPT ![variable_name] = 0],
          disabled |-> disabled_variables]
    ELSE [ret |-> TRUE, io |-> TRUE,
          count |-> [write_timeout_count EXCEPT ![variable_name] = 0],
          disabled |-> disabled_variables \ {variable_name}]

\* variant: a raised exception resets every variable's counter
safe_write_reset_all(variable_name, resp) ==
    IF ~plc_open \/ variable_name \in disabled_variables
    THEN [ret |-> FALSE, io |-> FALSE,
          count |-> write_timeout_count, disabled |-> disabled_variables]
    ELSE IF resp = "timeout"
    THEN LET c == [write_timeout_count EXCEPT ![variable_name] = @ + 1] IN
         [ret |-> FALSE, io |-> TRUE, count |-> c,
          disabled |-> IF c[variable_name] >= max_consecutive_timeouts
                       THEN disabled_variables \cup {variable_name}
                       ELSE disabled_variables]
    ELSE IF resp = "raise"
    THEN [ret |-> FALSE, io |-> TRUE,
          count |-> [v \in WriteVars |-> 0],
          disabled |-> disabled_variables]
    ELSE [ret |-> TRUE, io |-> TRUE,
          count |-> [write_timeout_count EXCEPT ![variable_name] = 0],
          disabled |-> disabled_variables \ {variable_name}]

\* variant: without the test of the session at lines 177-178
safe_write_unopened(variable_name, resp) ==
    IF variable_name \in disabled_variables
    THEN [ret |-> FALSE, io |-> FALSE,
          count |-> write_timeout_count, disabled |-> disabled_variables]
    ELSE IF resp = "timeout"
    THEN LET c == [write_timeout_count EXCEPT ![variable_name] = @ + 1] IN
         [ret |-> FALSE, io |-> TRUE, count |-> c,
          disabled |-> IF c[variable_name] >= max_consecutive_timeouts
                       THEN disabled_variables \cup {variable_name}
                       ELSE disabled_variables]
    ELSE IF resp = "raise"
    THEN [ret |-> FALSE, io |-> TRUE,
          count |-> [write_timeout_count EXCEPT ![variable_name] = 0],
          disabled |-> disabled_variables]
    ELSE [ret |-> TRUE, io |-> TRUE,
          count |-> [write_timeout_count EXCEPT ![variable_name] = 0],
          disabled |-> disabled_variables \ {variable_name}]

safe_write(variable_name, resp) ==
    IF ~plc_open \/ variable_name \in disabled_variables
    THEN [ret |-> FALSE, io |-> FALSE,
          count |-> write_timeout_count, disabled |-> disabled_variables]
    ELSE IF resp = "timeout"
    THEN LET c == [write_timeout_count EXCEPT ![variable_name] = @ + 1] IN
         [ret |-> FALSE, io |-> TRUE, count |-> c,
          disabled |-> IF c[variable_name] >= max_consecutive_timeouts
                       THEN disabled_variables \cup {variable_name}
                       ELSE disabled_variables]
    ELSE IF resp = "raise"
    THEN [ret |-> FALSE, io |-> TRUE,
          count |-> [write_timeout_count EXCEPT ![variable_name] = 0],
          disabled |-> disabled_variables]
    ELSE [ret |-> TRUE, io |-> TRUE,
          count |-> [write_timeout_count EXCEPT ![variable_name] = 0],
          disabled |-> disabled_variables \ {variable_name}]

\* the effect of one _safe_write call on the breaker and on the controller
Write(variable_name, value, resp) ==
    LET w == safe_write(variable_name, resp) IN
    /\ write_timeout_count' = w.count
    /\ disabled_variables' = w.disabled
    /\ plc' = IF w.ret /\ variable_name \in PlcVars
              THEN [plc EXCEPT ![variable_name] = value]
              ELSE plc

\* the variables whose writes may time out
TimeoutVars == {"busy"}

\* what the underlying write of a variable may do
WriteResp(v) == {"ok", "raise"} \cup (IF v \in TimeoutVars THEN {"timeout"} ELSE {})
ReadResp == {"ok", "fail"}

\* every assignment measurement_in_progress = False
ClearInProgress == measurement_in_progress' = FALSE

----------------------------------------------------------------------------
(* The controller: it raises and lowers its trigger whenever it likes.     *)

Raise ==
    /\ ~plc["trigger"]
    /\ plc' = [plc EXCEPT !["trigger"] = TRUE]
    /\ UNCHANGED <<plc_open, running, last_trigger_state, measurement_in_progress,
                   last_start_cont_state, last_stop_cont_state, write_timeout_count,
                   disabled_variables, pollPc, trigger, hostPc, current_trigger>>
    /\ UNCHANGED pubEv

Lower ==
    /\ plc["trigger"]
    /\ plc' = [plc EXCEPT !["trigger"] = FALSE]
    /\ UNCHANGED <<plc_open, running, last_trigger_state, measurement_in_progress,
                   last_start_cont_state, last_stop_cont_state, write_timeout_count,
                   disabled_variables, pollPc, trigger, hostPc, current_trigger>>
    /\ UNCHANGED pubEv

----------------------------------------------------------------------------
(* The host thread.  In chrocodile_gui.py every call into the interface    *)
(* is made from the Tk main thread, so the host's calls never overlap one  *)
(* another; they do overlap the poll thread.                               *)

\* connect(): conn is what the open attempts come to
connect(conn) == conn = "ok"

\* start_polling() without the test of self.running at its head
StartPollingUnguarded(conn, rd) ==
    /\ hostPc = "idle"
    /\ IF ~plc_open /\ ~connect(conn)
       THEN /\ plc_open' = FALSE
            /\ UNCHANGED <<plc, running, last_trigger_state, measurement_in_progress,
                           last_start_cont_state, last_stop_cont_state,
                           write_timeout_count, disabled_variables, pollPc, trigger,
                           hostPc, current_trigger>>
            /\ UNCHANGED pubEv
       ELSE /\ plc_open' = TRUE
            /\ last_trigger_state' = IF rd = "ok" THEN plc["trigger"] ELSE FALSE
            /\ running' = TRUE
            /\ pollPc' = "top"
            /\ UNCHANGED <<plc, measurement_in_progress, last_start_cont_state,
                           last_stop_cont_state, write_timeout_count,
                           disabled_variables, trigger, hostPc, current_trigger>>
            /\ UNCHANGED pubEv

\* start_polling(): conn is connect()'s outcome, rd the initial trigger read's
StartPolling(conn, rd) ==
    /\ hostPc = "idle"
    /\ IF running
       THEN \* return False
            UNCHANGED <<coreVars, pubEv>>
       ELSE IF ~plc_open /\ ~connect(conn)
       THEN \* connect() failed: polling not started
            /\ plc_open' = FALSE
            /\ UNCHANGED <<plc, running, last_trigger_state, measurement_in_progress,
                           last_start_cont_state, last_stop_cont_state,
                           write_timeout_count, disabled_variables, pollPc, trigger,
                           hostPc, current_trigger>>
            /\ UNCHANGED pubEv
       ELSE /\ plc_open' = TRUE
            /\ last_trigger_state' = IF rd = "ok" THEN plc["trigger"] ELSE FALSE
            /\ running' = TRUE
            /\ pollPc' = "top"
            /\ UNCHANGED <<plc, measurement_in_progress, last_start_cont_state,
                           last_stop_cont_state, write_timeout_count,
                           disabled_variables, trigger, hostPc, current_trigger>>
            /\ UNCHANGED pubEv

\* stop_polling(), up to the join
StopPolling ==
    /\ hostPc = "idle"
    /\ running' = FALSE
    /\ hostPc' = "join"
    /\ UNCHANGED <<plc, plc_open, last_trigger_state, measurement_in_progress,
                   last_start_cont_state, last_stop_cont_state, write_timeout_count,
                   disabled_variables, pollPc, trigger, current_trigger>>
    /\ UNCHANGED pubEv

\* stop_polling() with the reset that its comment rules out: the trigger state and
\* the in-progress flag are cleared before disconnect()
StopJoinedResetting ==
    /\ hostPc = "join"
    /\ pollPc \in {"none", "dead"}
    /\ plc_open' = FALSE
    /\ hostPc' = "idle"
    /\ last_trigger_state' = FALSE
    /\ measurement_in_progress' = FALSE
    /\ UNCHANGED <<plc, running, last_start_cont_state, last_stop_cont_state,
                   write_timeout_count, disabled_variables, pollPc, trigger,
                   current_trigger>>
    /\ UNCHANGED pubEv

\* stop_polling(): the join returns because the poll thread has ended (or was never
\* started), then disconnect()
StopJoined ==
    /\ hostPc = "join"
    /\ pollPc \in {"none", "dead"}
    /\ plc_open' = FALSE
    /\ hostPc' = "idle"
    /\ UNCHANGED <<plc, running, last_trigger_state, measurement_in_progress,
                   last_start_cont_state, last_stop_cont_state, write_timeout_count,
                   disabled_variables, pollPc, trigger, current_trigger>>
    /\ UNCHANGED pubEv

----------------------------------------------------------------------------
(* write_measurement_result, statement by statement.                       *)

\* pubEv: the events of the call of write_measurement_result in progress, in order:
\*   "closed"  the session was found not open
\*   "sync"    last_trigger_state was assigned the value just read
\*   "default" last_trigger_state was assigned False because the read failed
\*   "fault"   an exception entered the outer except clause
\*   "busy"    _safe_write(var_busy, False) was called
\*   "refused" the call of line 768 just made returned False
\*   "ready"   _safe_write(var_ready, True) was called
\*   "clear"   measurement_in_progress was assigned False ("clear0": it was False)
\*   "set"     the poll thread assigned measurement_in_progress True after that
Has(ev, e) == \E i \in 1..Len(ev) : ev[i] = e
Cleared(ev) == Has(ev, "clear") \/ Has(ev, "clear0")
ClearEvent == IF measurement_in_progress THEN "clear" ELSE "clear0"

\* the call, and the test `if not self.plc or not self.plc.is_open`
PublishCall ==
    /\ hostPc = "idle"
    /\ IF ~plc_open
       THEN /\ ClearInProgress
            /\ pubEv' = <<"closed", ClearEvent>>
            /\ hostPc' = "ret"
       ELSE /\ pubEv' = <<>>
            /\ hostPc' = "rd"
            /\ UNCHANGED measurement_in_progress
    /\ UNCHANGED <<plc, plc_open, running, last_trigger_state, last_start_cont_state,
                   last_stop_cont_state, write_timeout_count, disabled_variables,
                   pollPc, trigger, current_trigger>>

\* current_trigger = self.plc.read_by_name(self.var_trigger, ...)
PublishRead(rd) ==
    /\ hostPc = "rd"
    /\ IF rd = "ok" /\ plc_open
       THEN /\ current_trigger' = plc["trigger"]
            /\ hostPc' = "sync"
       ELSE \* the read raised: keep the current state
            /\ hostPc' = "thickness"
            /\ UNCHANGED current_trigger
    /\ UNCHANGED <<plc, plc_open, running, last_trigger_state, measurement_in_progress,
                   last_start_cont_state, last_stop_cont_state, write_timeout_count,
                   disabled_variables, pollPc, trigger>>
    /\ UNCHANGED pubEv

\* self.last_trigger_state = current_trigger
PublishSync ==
    /\ hostPc = "sync"
    /\ last_trigger_state' = current_trigger
    /\ current_trigger' = FALSE    \* the local is not read again
    /\ pubEv' = Append(pubEv, "sync")
    /\ hostPc' = "thickness"
    /\ UNCHANGED <<plc, plc_open, running, measurement_in_progress,
                   last_start_cont_state, last_stop_cont_state, write_timeout_count,
                   disabled_variables, pollPc, trigger>>

ResultFields == {"thickness", "peak1", "peak2", "count"}

AfterField(f) ==
    CASE f = "thickness" -> "peak1"
      [] f = "peak1" -> "peak2"
      [] f = "peak2" -> "count"
      [] f = "count" -> "busy"

\* what one result field comes to: the field is None ("absent", never for the count),
\* float()/int() raises ("fault"), the write is made (a response of WriteResp), or the
\* write is made and the log line's format raises ("okfault")
FieldResp(f) ==
    (IF f = "count" THEN {} ELSE {"absent"}) \cup {"fault", "okfault"} \cup WriteResp(f)

\* one of the four `if x is not None: if self._safe_write(...)` blocks
PublishField(f, r) ==
    /\ hostPc = f
    /\ r \in FieldResp(f)
    /\ IF r \in {"absent", "fault"}
       THEN UNCHANGED <<plc, write_timeout_count, disabled_variables>>
       ELSE Write(f, 0, IF r = "okfault" THEN "ok" ELSE r)
    /\ IF r = "fault" \/ (r = "okfault" /\ safe_write(f, "ok").ret)
       THEN /\ hostPc' = "fbusy"
            /\ pubEv' = Append(pubEv, "fault")
       ELSE /\ hostPc' = AfterField(f)
            /\ UNCHANGED pubEv
    /\ UNCHANGED <<plc_open, running, last_trigger_state, measurement_in_progress,
                   last_start_cont_state, last_stop_cont_state, pollPc, trigger,
                   current_trigger>>

\* a variant that goes on to the ready write whatever the busy write returned
PublishBusyUnchecked(r) ==
    /\ hostPc = "busy"
    /\ Write("busy", FALSE, r)
    /\ pubEv' = IF safe_write("busy", r).ret THEN Append(pubEv, "busy")
                ELSE pubEv \o <<"busy", "refused">>
    /\ hostPc' = "ready"
    /\ UNCHANGED <<plc_open, running, last_trigger_state, measurement_in_progress,
                   last_start_cont_state, last_stop_cont_state, pollPc, trigger,
                   current_trigger>>

\* if self._safe_write(self.var_busy, False, ...)
PublishBusy(r) ==
    /\ hostPc = "busy"
    /\ Write("busy", FALSE, r)
    /\ pubEv' = IF safe_write("busy", r).ret THEN Append(pubEv, "busy")
                ELSE pubEv \o <<"busy", "refused">>
    /\ hostPc' = IF safe_write("busy", r).ret THEN "ready" ELSE "error"
    /\ UNCHANGED <<plc_open, running, last_trigger_state, measurement_in_progress,
                   last_start_cont_state, last_stop_cont_state, pollPc, trigger,
                   current_trigger>>

\* if self._safe_write(self.var_ready, True, ...)
PublishReady(r) ==
    /\ hostPc = "ready"
    /\ Write("ready", TRUE, r)
    /\ pubEv' = Append(pubEv, "ready")
    /\ hostPc' = "error"
    /\ UNCHANGED <<plc_open, running, last_trigger_state, measurement_in_progress,
                   last_start_cont_state, last_stop_cont_state, pollPc, trigger,
                   current_trigger>>

\* self._safe_write(self.var_error, '', ...)
PublishError(r) ==
    /\ hostPc = "error"
    /\ Write("error", 0, r)
    /\ hostPc' = "clear"
    /\ UNCHANGED <<plc_open, running, last_trigger_state, measurement_in_progress,
                   last_start_cont_state, last_stop_cont_state, pollPc, trigger,
                   current_trigger>>
    /\ UNCHANGED pubEv

\* self.measurement_in_progress = False, the last statement of the try block
PublishClear ==
    /\ hostPc = "clear"
    /\ ClearInProgress
    /\ pubEv' = Append(pubEv, ClearEvent)
    /\ hostPc' = "ret"
    /\ UNCHANGED <<plc, plc_open, running, last_trigger_state, last_start_cont_state,
                   last_stop_cont_state, write_timeout_count, disabled_variables,
                   pollPc, trigger, current_trigger>>

\* except Exception: self._safe_write(self.var_busy, False, ...)
PublishFallbackBusy(r) ==
    /\ hostPc = "fbusy"
    /\ Write("busy", FALSE, r)
    /\ pubEv' = Append(pubEv, "busy")
    /\ hostPc' = "fclear"
    /\ UNCHANGED <<plc_open, running, last_trigger_state, measurement_in_progress,
                   last_start_cont_state, last_stop_cont_state, pollPc, trigger,
                   current_trigger>>

\* a variant of the fallback that leaves measurement_in_progress alone
PublishFallbackNoClear ==
    /\ hostPc = "fclear"
    /\ hostPc' = "fread"
    /\ UNCHANGED <<plc, plc_open, running, last_trigger_state, measurement_in_progress,
                   last_start_cont_state, last_stop_cont_state, write_timeout_count,
                   disabled_variables, pollPc, trigger, current_trigger>>
    /\ UNCHANGED pubEv

\* except Exception: self.measurement_in_progress = False
PublishFallbackClear ==
    /\ hostPc = "fclear"
    /\ ClearInProgress
    /\ pubEv' = Append(pubEv, ClearEvent)
    /\ hostPc' = "fread"
    /\ UNCHANGED <<plc, plc_open, running, last_trigger_state, last_start_cont_state,
                   last_stop_cont_state, write_timeout_count, disabled_variables,
                   pollPc, trigger, current_trigger>>

\* except Exception: if self.plc and self.plc.is_open: current_trigger = read(...)
PublishFallbackRead(rd) ==
    /\ hostPc = "fread"
    /\ IF ~plc_open
       THEN /\ hostPc' = "ret"
            /\ UNCHANGED current_trigger
       ELSE IF rd = "ok"
       THEN /\ current_trigger' = plc["trigger"]
            /\ hostPc' = "fsync"
       ELSE /\ hostPc' = "fdefault"
            /\ UNCHANGED current_trigger
    /\ UNCHANGED <<plc, plc_open, running, last_trigger_state, measurement_in_progress,
                   last_start_cont_state, last_stop_cont_state, write_timeout_count,
                   disabled_variables, pollPc, trigger>>
    /\ UNCHANGED pubEv

\* except Exception: self.last_trigger_state = current_trigger
PublishFallbackSync ==
    /\ hostPc = "fsync"
    /\ last_trigger_state' = current_trigger
    /\ current_trigger' = FALSE    \* the local is not read again
    /\ pubEv' = Append(pubEv, "sync")
    /\ hostPc' = "ret"
    /\ UNCHANGED <<plc, plc_open, running, measurement_in_progress,
                   last_start_cont_state, last_stop_cont_state, write_timeout_count,
                   disabled_variables, pollPc, trigger>>

\* except Exception: ... except Exception: self.last_trigger_state = False
PublishFallbackDefault ==
    /\ hostPc = "fdefault"
    /\ last_trigger_state' = FALSE
    /\ pubEv' = Append(pubEv, "default")
    /\ hostPc' = "ret"
    /\ UNCHANGED <<plc, plc_open, running, measurement_in_progress,
                   last_start_cont_state, last_stop_cont_state, write_timeout_count,
                   disabled_variables, pollPc, trigger, current_trigger>>

\* write_measurement_result returns
PublishReturn ==
    /\ hostPc = "ret"
    /\ hostPc' = "idle"
    /\ pubEv' = <<>>
    /\ UNCHANGED <<plc, plc_open, running, last_trigger_state, measurement_in_progress,
                   last_start_cont_state, last_stop_cont_state, write_timeout_count,
                   disabled_variables, pollPc, trigger, current_trigger>>

----------------------------------------------------------------------------
(* _poll_loop, statement by statement.  pollPc names the statement the     *)
(* thread executes next; "none": no thread was started, "dead": the thread *)
(* has left the loop.                                                      *)

\* while self.running: if not self.plc or not self.plc.is_open: sleep; continue
PollTop ==
    /\ pollPc = "top"
    /\ pollPc' = IF ~running THEN "dead" ELSE IF ~plc_open THEN "top" ELSE "read"
    /\ UNCHANGED <<plc, plc_open, running, last_trigger_state, measurement_in_progress,
                   last_start_cont_state, last_stop_cont_state, write_timeout_count,
                   disabled_variables, trigger, hostPc, current_trigger>>
    /\ UNCHANGED pubEv

\* a variant of the read step whose except clauses call connect() whether or not the
\* session is found closed
PollReadReconnectAlways(rd, conn) ==
    /\ pollPc = "read"
    /\ IF rd = "ok" /\ plc_open
       THEN /\ trigger' = plc["trigger"]
            /\ pollPc' = "edge"
            /\ UNCHANGED plc_open
       ELSE /\ plc_open' = connect(conn)
            /\ pollPc' = "top"
            /\ UNCHANGED trigger
    /\ UNCHANGED <<plc, running, last_trigger_state, measurement_in_progress,
                   last_start_cont_state, last_stop_cont_state, write_timeout_count,
                   disabled_variables, hostPc, current_trigger>>
    /\ UNCHANGED pubEv

\* trigger = self.plc.read_by_name(self.var_trigger, ...); when the read raises, the
\* except clauses reconnect if the session is found closed (conn: connect()'s outcome),
\* sleep and continue
PollRead(rd, conn) ==
    /\ pollPc = "read"
    /\ IF rd = "ok" /\ plc_open
       THEN /\ trigger' = plc["trigger"]
            /\ pollPc' = "edge"
            /\ UNCHANGED plc_open
       ELSE /\ plc_open' = IF plc_open THEN TRUE ELSE connect(conn)
            /\ pollPc' = "top"
            /\ UNCHANGED trigger
    /\ UNCHANGED <<plc, running, last_trigger_state, measurement_in_progress,
                   last_start_cont_state, last_stop_cont_state, write_timeout_count,
                   disabled_variables, hostPc, current_trigger>>
    /\ UNCHANGED pubEv

\* variants of the guard, each without one of its conjuncts
RisingEdgeIgnoringInProgress == trigger /\ ~last_trigger_state
RisingEdgeIgnoringLast == trigger /\ ~measurement_in_progress

\* if trigger and not self.last_trigger_state and not self.measurement_in_progress
RisingEdge == trigger /\ ~last_trigger_state /\ ~measurement_in_progress

PollEdge ==
    /\ pollPc = "edge"
    /\ pollPc' = IF RisingEdge THEN "set" ELSE "ack"
    /\ UNCHANGED <<plc, plc_open, running, last_trigger_state, measurement_in_progress,
                   last_start_cont_state, last_stop_cont_state, write_timeout_count,
                   disabled_variables, trigger, hostPc, current_trigger>>
    /\ UNCHANGED pubEv

\* self.measurement_in_progress = True
PollSetInProgress ==
    /\ pollPc = "set"
    /\ measurement_in_progress' = TRUE
    /\ pollPc' = "wbusy"
    /\ pubEv' = IF Cleared(pubEv) /\ ~Has(pubEv, "set")
              THEN Append(pubEv, "set") ELSE pubEv
    /\ UNCHANGED <<plc, plc_open, running, last_trigger_state, last_start_cont_state,
                   last_stop_cont_state, write_timeout_count, disabled_variables,
                   trigger, hostPc, current_trigger>>

\* self._safe_write(self.var_busy, True, ...)
PollWriteBusy(r) ==
    /\ pollPc = "wbusy"
    /\ Write("busy", TRUE, r)
    /\ pollPc' = "wready"
    /\ UNCHANGED <<plc_open, running, last_trigger_state, measurement_in_progress,
                   last_start_cont_state, last_stop_cont_state, trigger, hostPc,
                   current_trigger>>
    /\ UNCHANGED pubEv

\* self._safe_write(self.var_ready, False, ...)
PollWriteReady(r) ==
    /\ pollPc = "wready"
    /\ Write("ready", FALSE, r)
    /\ pollPc' = "call"
    /\ UNCHANGED <<plc_open, running, last_trigger_state, measurement_in_progress,
                   last_start_cont_state, last_stop_cont_state, trigger, hostPc,
                   current_trigger>>
    /\ UNCHANGED pubEv

\* a variant of the callback step without the except clause of lines 563-570: a
\* callback that raises ends the thread
PollCallbackUncaught(cb) ==
    /\ pollPc = "call"
    /\ pollPc' = IF cb = "ok" THEN "ack" ELSE "dead"
    /\ UNCHANGED <<plc, plc_open, running, last_trigger_state, measurement_in_progress,
                   last_start_cont_state, last_stop_cont_state, write_timeout_count,
                   disabled_variables, trigger, hostPc, current_trigger>>
    /\ UNCHANGED pubEv

\* result = self.callback("trigger_measurement"): it returns ("ok") or raises
PollCallback(cb) ==
    /\ pollPc = "call"
    /\ pollPc' = IF cb = "ok" THEN "ack" ELSE "exc"
    /\ UNCHANGED <<plc, plc_open, running, last_trigger_state, measurement_in_progress,
                   last_start_cont_state, last_stop_cont_state, write_timeout_count,
                   disabled_variables, trigger, hostPc, current_trigger>>
    /\ UNCHANGED pubEv

\* a variant of the except clause that leaves measurement_in_progress set
PollCallbackErrorKeeps ==
    /\ pollPc = "exc"
    /\ pollPc' = "werror"
    /\ UNCHANGED <<plc, plc_open, running, last_trigger_state, measurement_in_progress,
                   last_start_cont_state, last_stop_cont_state, write_timeout_count,
                   disabled_variables, trigger, hostPc, current_trigger>>
    /\ UNCHANGED pubEv

\* except Exception: self.measurement_in_progress = False
PollCallbackError ==
    /\ pollPc = "exc"
    /\ ClearInProgress
    /\ pollPc' = "werror"
    /\ UNCHANGED <<plc, plc_open, running, last_trigger_state, last_start_cont_state,
                   last_stop_cont_state, write_timeout_count, disabled_variables,
                   trigger, hostPc, current_trigger>>
    /\ UNCHANGED pubEv

\* except Exception: self._safe_write(self.var_error, str(e)[:255], ...)
PollWriteError(r) ==
    /\ pollPc = "werror"
    /\ Write("error", 1, r)
    /\ pollPc' = "wbusy0"
    /\ UNCHANGED <<plc_open, running, last_trigger_state, measurement_in_progress,
                   last_start_cont_state, last_stop_cont_state, trigger, hostPc,
                   current_trigger>>
    /\ UNCHANGED pubEv

\* except Exception: self._safe_write(self.var_busy, False, ...)
PollWriteBusyFalse(r) ==
    /\ pollPc = "wbusy0"
    /\ Write("busy", FALSE, r)
    /\ pollPc' = "ack"
    /\ UNCHANGED <<plc_open, running, last_trigger_state, measurement_in_progress,
                   last_start_cont_state, last_stop_cont_state, trigger, hostPc,
                   current_trigger>>
    /\ UNCHANGED pubEv

\* the read of the acknowledgment, ending the measurement in progress
PollAckClearing ==
    /\ pollPc = "ack"
    /\ pollPc' = "cont"
    /\ ClearInProgress
    /\ UNCHANGED <<plc, plc_open, running, last_trigger_state,
                   last_start_cont_state, last_stop_cont_state, write_timeout_count,
                   disabled_variables, trigger, hostPc, current_trigger>>
    /\ UNCHANGED pubEv

\* ack = self.plc.read_by_name(self.var_ack, ...): logged only, a failure is ignored
PollAck ==
    /\ pollPc = "ack"
    /\ pollPc' = "cont"
    /\ UNCHANGED <<plc, plc_open, running, last_trigger_state, measurement_in_progress,
                   last_start_cont_state, last_stop_cont_state, write_timeout_count,
                   disabled_variables, trigger, hostPc, current_trigger>>
    /\ UNCHANGED pubEv

\* the continuous-measurement block: rd is what the reads of the start and stop flags
\* come to, cb what the callback does when an edge invokes it.  A read or a callback
\* that raises leaves the block before the edge state is updated.
PollContinuous(rd, cb) ==
    /\ pollPc = "cont"
    /\ pollPc' = "upd"
    /\ LET start_cont == plc["start_cont"]
           stop_cont == plc["stop_cont"]
           invoked == \/ start_cont /\ ~last_start_cont_state
                      \/ stop_cont /\ ~last_stop_cont_state
       IN IF rd = "ok" /\ plc_open /\ ~(invoked /\ cb = "raise")
          THEN /\ last_start_cont_state' = start_cont
               /\ last_stop_cont_state' = stop_cont
          ELSE UNCHANGED <<last_start_cont_state, last_stop_cont_state>>
    /\ UNCHANGED <<plc, plc_open, running, last_trigger_state, measurement_in_progress,
                   write_timeout_count, disabled_variables, trigger, hostPc,
                   current_trigger>>
    /\ UNCHANGED pubEv

\* a variant of the update step that assigns whatever measurement_in_progress is
PollUpdateAlways ==
    /\ pollPc = "upd"
    /\ pollPc' = "assign"
    /\ UNCHANGED <<plc, plc_open, running, last_trigger_state, measurement_in_progress,
                   last_start_cont_state, last_stop_cont_state, write_timeout_count,
                   disabled_variables, trigger, hostPc, current_trigger>>
    /\ UNCHANGED pubEv

\* if not self.measurement_in_progress:   (then sleep, and the next cycle)
PollUpdateTest ==
    /\ pollPc = "upd"
    /\ pollPc' = IF ~measurement_in_progress THEN "assign" ELSE "top"
    /\ trigger' = IF ~measurement_in_progress THEN trigger ELSE FALSE  \* not read again
    /\ UNCHANGED <<plc, plc_open, running, last_trigger_state, measurement_in_progress,
                   last_start_cont_state, last_stop_cont_state, write_timeout_count,
                   disabled_variables, hostPc, current_trigger>>
    /\ UNCHANGED pubEv

\* self.last_trigger_state = trigger   (then sleep, and the next cycle)
PollAssign ==
    /\ pollPc = "assign"
    /\ last_trigger_state' = trigger
    /\ trigger' = FALSE    \* the local is not read again
    /\ pollPc' = "top"
    /\ UNCHANGED <<plc, plc_open, running, measurement_in_progress,
                   last_start_cont_state, last_stop_cont_state, write_timeout_count,
                   disabled_variables, hostPc, current_trigger>>
    /\ UNCHANGED pubEv

----------------------------------------------------------------------------
(* History variables.  Each is a function of the step taken; none is read  *)
(* by an action.                                                           *)

\* the step invokes callback("trigger_measurement")
Dispatching == pollPc = "call" /\ pollPc' # "call"

\* the invocations since measurement_in_progress was last False
ObserveInProgress ==
    in_progress_dispatches' =
        IF ~measurement_in_progress' THEN 0
        ELSE IF Dispatching THEN Min(in_progress_dispatches + 1, MaxDispatch)
        ELSE in_progress_dispatches

\* seed: "hold" from a start_polling whose initial read returned True until a read of
\* the trigger returns False; "pub" when the first such read, or the default False,
\* was write_measurement_result's and the poll loop has read no False yet
ObserveSeed ==
    seed' = IF ~running /\ running'
            THEN (IF last_trigger_state' THEN "hold" ELSE "off")
            ELSE IF pollPc = "read" /\ pollPc' = "edge" /\ ~trigger'
            THEN "off"
            ELSE IF /\ seed = "hold"
                    /\ \/ hostPc = "rd" /\ hostPc' = "sync" /\ ~current_trigger'
                       \/ hostPc = "fread" /\ hostPc' = "fsync" /\ ~current_trigger'
                       \/ hostPc = "fdefault" /\ hostPc' = "ret"
            THEN "pub"
            ELSE seed

Observe ==
    /\ ObserveInProgress
    /\ ObserveSeed
    /\ UNCHANGED <<dispatches, last_call, epi, host_call, errVars, threadVars>>

----------------------------------------------------------------------------
(* The specification: the three threads with every response of the         *)
(* environment, each step observed by the history variables.               *)

CbResp == {"ok", "raise"}

Next ==
    \/ PollTop /\ Observe
    \/ (\E rd \in ReadResp, conn \in ReadResp : PollRead(rd, conn)) /\ Observe
    \/ PollEdge /\ Observe
    \/ PollSetInProgress /\ Observe
    \/ (\E r \in WriteResp("busy") : PollWriteBusy(r)) /\ Observe
    \/ (\E r \in WriteResp("ready") : PollWriteReady(r)) /\ Observe
    \/ (\E cb \in CbResp : PollCallback(cb)) /\ Observe
    \/ PollCallbackError /\ Observe
    \/ (\E r \in WriteResp("error") : PollWriteError(r)) /\ Observe
    \/ (\E r \in WriteResp("busy") : PollWriteBusyFalse(r)) /\ Observe
    \/ PollAck /\ Observe
    \/ (\E rd \in ReadResp, cb \in CbResp : PollContinuous(rd, cb)) /\ Observe
    \/ PollUpdateTest /\ Observe
    \/ PollAssign /\ Observe
    \/ PublishCall /\ Observe
    \/ (\E rd \in ReadResp : PublishRead(rd)) /\ Observe
    \/ PublishSync /\ Observe
    \/ (\E f \in ResultFields : \E r \in FieldResp(f) : PublishField(f, r)) /\ Observe
    \/ (\E r \in WriteResp("busy") : PublishBusy(r)) /\ Observe
    \/ (\E r \in WriteResp("ready") : PublishReady(r)) /\ Observe
    \/ (\E r \in WriteResp("error") : PublishError(r)) /\ Observe
    \/ PublishClear /\ Observe
    \/ (\E r \in WriteResp("busy") : PublishFallbackBusy(r)) /\ Observe
    \/ PublishFallbackClear /\ Observe
    \/ (\E rd \in ReadResp : PublishFallbackRead(rd)) /\ Observe
    \/ PublishFallbackSync /\ Observe
    \/ PublishFallbackDefault /\ Observe
    \/ PublishReturn /\ Observe
    \/ (\E conn \in ReadResp, rd \in ReadResp : StartPolling(conn, rd)) /\ Observe
    \/ StopPolling /\ Observe
    \/ StopJoined /\ Observe
    \/ Raise /\ Observe
    \/ Lower /\ Observe

Spec == Init /\ [][Next]_vars

TypeOK ==
    /\ plc \in [PlcVars -> BOOLEAN]
    /\ write_timeout_count \in [WriteVars -> 0..max_consecutive_timeouts]
    /\ disabled_variables \subseteq WriteVars
    /\ dispatches \in 0..MaxDispatch
    /\ in_progress_dispatches \in 0..MaxDispatch
    /\ pollPc \in {"none", "dead", "top", "read", "edge", "set", "wbusy", "wready",
                  "call", "exc", "werror", "wbusy0", "ack", "cont", "upd", "assign"}
    /\ hostPc \in {"idle", "join", "rd", "sync", "busy", "ready", "error", "clear",
                   "fbusy", "fclear", "fread", "fsync", "fdefault", "ret"}
                  \cup ResultFields
    /\ seed \in {"off", "hold", "pub"}
    /\ (hostPc = "idle" /\ ~running) => pollPc \in {"none", "dead"}

----------------------------------------------------------------------------
(* Properties of Spec.                                                     *)

\* C1: once a rising edge has set measurement_in_progress and the callback has been
\* invoked with "trigger_measurement", the poll loop (Spec runs one at a time) invokes
\* it no second time until measurement_in_progress has been cleared: between two
\* moments at which the flag is False at most one invocation happens, whatever the
\* trigger reads return.
C1_OneDispatchWhileInProgress == in_progress_dispatches <= 1

\* a later cycle has read the trigger True while last_trigger_state is still False and
\* the dispatched measurement is in progress
C1_Witness ==
    /\ in_progress_dispatches = 1
    /\ measurement_in_progress
    /\ pollPc = "edge"
    /\ trigger
    /\ ~last_trigger_state

\* the positions of _poll_loop between the detection of a rising edge and the callback
Dispatch == {"set", "wbusy", "wready", "call"}

C4_UpdateOnlyWhenIdle ==
    [][ /\ (pollPc = "upd" /\ pollPc' # "upd")
            => /\ (pollPc' = "assign") = ~measurement_in_progress
               /\ measurement_in_progress
                    => pollPc' = "top" /\ last_trigger_state' = last_trigger_state
        /\ (pollPc' # pollPc /\ pollPc \notin {"none", "dead", "assign"})
            => last_trigger_state' = last_trigger_state
      ]_vars

\* the dispatching cycle has ended: it read True, and last_trigger_state is still False
C4_Witness ==
    /\ pollPc = "top"
    /\ in_progress_dispatches = 1
    /\ measurement_in_progress
    /\ ~last_trigger_state

\* the positions in pubEv of the assignments to last_trigger_state, and of the
\* handshake writes and the clearing of measurement_in_progress
Assignments(ev) == {i \in 1..Len(ev) : ev[i] \in {"sync", "default"}}
Handshake(ev) == {i \in 1..Len(ev) : ev[i] \in {"busy", "ready", "clear", "clear0"}}

\* C5 as stated: a call of write_measurement_result that found the session open
\* assigns last_trigger_state exactly once, from the value just read, before its
\* busy and ready writes and before it clears measurement_in_progress.
C5_ResyncOnceBeforeHandshake ==
    (hostPc = "ret" /\ ~Has(pubEv, "closed"))
        => /\ Cardinality(Assignments(pubEv)) = 1
           /\ \A i \in Assignments(pubEv) :
                 /\ pubEv[i] = "sync"
                 /\ \A j \in Handshake(pubEv) : i < j

\* C6: on every path write_measurement_result has assigned measurement_in_progress
\* False when it returns, and the flag is True then only if the poll thread has set it
\* since; with the session not open the call does nothing else; after a fault the
\* busy write of the fallback has been attempted before the clearing.
C6_ClearedOnEveryPath ==
    hostPc = "ret"
        => /\ Cleared(pubEv)
           /\ measurement_in_progress => Has(pubEv, "set")
           /\ Has(pubEv, "closed") => Len(pubEv) = 2 \/ pubEv[3] = "set"
           /\ \A i \in 1..Len(pubEv) :
                 pubEv[i] = "fault"
                    => /\ i + 2 <= Len(pubEv)
                       /\ pubEv[i + 1] = "busy"
                       /\ pubEv[i + 2] \in {"clear", "clear0"}

\* the call returns after a fault that followed the resynchronisation, and it has
\* cleared a flag that was True
C6_Witness ==
    /\ hostPc = "ret"
    /\ Has(pubEv, "fault")
    /\ Has(pubEv, "clear")
    /\ pubEv[1] = "sync"
    /\ ~measurement_in_progress

\* C20: in write_measurement_result the write ready = True is attempted only
\* directly after the write busy = False of the same call has returned True; when
\* that write returned False (it raised, timed out, or was skipped for a disabled
\* variable or a closed session) the call attempts no ready write.
C20_ReadyOnlyAfterBusyWritten ==
    /\ \A i \in 1..Len(pubEv) :
          /\ pubEv[i] = "ready" => (i > 1 /\ pubEv[i - 1] = "busy")
          /\ pubEv[i] = "refused" => ~Has(pubEv, "ready")
    /\ hostPc = "ready" => (pubEv # <<>> /\ pubEv[Len(pubEv)] = "busy")

\* the write busy = False was skipped because the variable is disabled, and the call
\* has gone on to the error write without a ready write
C20_Witness ==
    /\ hostPc = "error"
    /\ Has(pubEv, "refused")
    /\ ~Has(pubEv, "ready")
    /\ "busy" \in disabled_variables
    /\ plc_open

\* C19: when the callback raises on a rising edge, the poll thread enters the except
\* clause of the same cycle: it clears measurement_in_progress, then attempts the
\* write of the error text, then the write busy = False (the flag is False at both
\* writes), and goes on with the acknowledgment read, the continuous block and the
\* update step of that cycle and from there to the top of the loop; the thread
\* leaves the loop only at the top, when running is False.
C19_CallbackErrorHandledInCycle ==
    [][ /\ (pollPc = "exc" /\ pollPc' # pollPc)
            => (pollPc' = "werror" /\ ~measurement_in_progress')
        /\ (pollPc = "werror" /\ pollPc' # pollPc)
            => (pollPc' = "wbusy0" /\ ~measurement_in_progress)
        /\ (pollPc = "wbusy0" /\ pollPc' # pollPc)
            => (pollPc' = "ack" /\ ~measurement_in_progress)
        /\ (pollPc = "ack" /\ pollPc' # pollPc) => pollPc' = "cont"
        /\ (pollPc = "cont" /\ pollPc' # pollPc) => pollPc' = "upd"
        /\ (pollPc = "upd" /\ pollPc' # pollPc) => pollPc' \in {"assign", "top"}
        /\ (pollPc = "assign" /\ pollPc' # pollPc) => pollPc' = "top"
        /\ (pollPc' = "dead" /\ pollPc # "dead") => (pollPc = "top" /\ ~running)
      ]_vars

\* the callback has raised and the poll thread, with measurement_in_progress
\* cleared and the error text written, is about to write busy = False
C19_Witness ==
    /\ pollPc = "wbusy0"
    /\ ~measurement_in_progress
    /\ running
    /\ plc_open

----------------------------------------------------------------------------
(* SpecBreaker: _safe_write and the calls around it, made one after the    *)
(* other by a single caller with no poll thread running.                   *)

BreakerVars == {"busy", "ready", "error"}
BreakerResp == {"ok", "raise", "timeout"}

\* connect(), called by the host
ConnectCall(conn) ==
    /\ hostPc = "idle"
    /\ ~running
    /\ plc_open' = connect(conn)
    /\ last_call' = NoCall
    /\ UNCHANGED <<plc, running, last_trigger_state, measurement_in_progress,
                   last_start_cont_state, last_stop_cont_state, write_timeout_count,
                   disabled_variables, pollPc, trigger, hostPc, current_trigger>>
    /\ host_call' = NoHostCall
    /\ UNCHANGED <<histVars, epi, errVars, threadVars>>

\* disconnect(), called by the host
DisconnectCall ==
    /\ hostPc = "idle"
    /\ ~running
    /\ plc_open' = FALSE
    /\ last_call' = NoCall
    /\ UNCHANGED <<plc, running, last_trigger_state, measurement_in_progress,
                   last_start_cont_state, last_stop_cont_state, write_timeout_count,
                   disabled_variables, pollPc, trigger, hostPc, current_trigger>>
    /\ host_call' = NoHostCall
    /\ UNCHANGED <<histVars, epi, errVars, threadVars>>

\* one call _safe_write(variable_name, value, ...)
SafeWriteCall(variable_name, value, resp) ==
    /\ hostPc = "idle"
    /\ ~running
    /\ Write(variable_name, value, resp)
    /\ last_call' = [var |-> variable_name, resp |-> resp, open |-> plc_open,
                     io |-> safe_write(variable_name, resp).io,
                     ret |-> safe_write(variable_name, resp).ret]
    /\ UNCHANGED <<plc_open, running, last_trigger_state, measurement_in_progress,
                   last_start_cont_state, last_stop_cont_state, pollPc, trigger,
                   hostPc, current_trigger>>
    /\ host_call' = NoHostCall
    /\ UNCHANGED <<histVars, epi, errVars, threadVars>>

\* reset_disabled_variables(): what it leaves in the breaker, the count it passes
\* to the log callback, and the value it returns (the method has no return statement)
reset_disabled_variables ==
    [disabled |-> {},
     count    |-> [v \in WriteVars |-> 0],
     logged   |-> <<Cardinality(disabled_variables)>>,
     ret      |-> None]

\* reset_disabled_variables(), called by the host
ResetDisabledVariables ==
    /\ hostPc = "idle"
    /\ ~running
    /\ disabled_variables' = reset_disabled_variables.disabled
    /\ write_timeout_count' = reset_disabled_variables.count
    /\ last_call' = NoCall
    /\ host_call' = [NoHostCall EXCEPT !.op = "reset_disabled_variables",
                                       !.open = plc_open,
                                       !.ret = reset_disabled_variables.ret,
                                       !.logged = reset_disabled_variables.logged]
    /\ UNCHANGED <<plc, plc_open, running, last_trigger_state, measurement_in_progress,
                   last_start_cont_state, last_stop_cont_state, pollPc, trigger,
                   hostPc, current_trigger>>
    /\ UNCHANGED <<histVars, epi, errVars, threadVars>>

NextBreaker ==
    \/ \E conn \in ReadResp : ConnectCall(conn)
    \/ DisconnectCall
    \/ \E v \in BreakerVars, value \in BOOLEAN, resp \in BreakerResp :
           SafeWriteCall(v, value, resp)
    \/ ResetDisabledVariables

SpecBreaker == Init /\ [][NextBreaker]_vars

\* C9: a call that makes the underlying write adds one to V's counter when the write
\* times out and sets the counter to zero when it returns or raises; V enters the
\* disabled set exactly in the call whose timeout brings the counter from 2 to 3, so
\* no earlier timeout disables it; a call for a disabled V makes no underlying write,
\* returns False and changes nothing.
C9_DisabledAtThirdTimeout ==
    [][ \A v \in WriteVars :
          LET c == last_call'
              called == c.var = v
          IN /\ (called /\ c.io /\ c.resp = "timeout")
                    => write_timeout_count'[v] = write_timeout_count[v] + 1
             /\ (called /\ c.io /\ c.resp # "timeout")
                    => write_timeout_count'[v] = 0
             /\ (v \notin disabled_variables /\ v \in disabled_variables')
                    <=> /\ called /\ c.io /\ c.resp = "timeout"
                        /\ write_timeout_count[v] = max_consecutive_timeouts - 1
             /\ (called /\ v \in disabled_variables)
                    => /\ ~c.io /\ ~c.ret
                       /\ UNCHANGED <<plc, write_timeout_count, disabled_variables>>
      ]_vars

\* a write was attempted, with the session open, to a variable disabled by three
\* timeouts in a row, and no underlying write was made
C9_Witness ==
    /\ last_call.var \in disabled_variables
    /\ last_call.open
    /\ ~last_call.io
    /\ write_timeout_count[last_call.var] = max_consecutive_timeouts

\* C10 as stated: a call for V, made with the session open, whose underlying write
\* would succeed leaves V enabled with its counter at zero, also when V was disabled
\* before the call.
C10_SuccessReenables ==
    [][ (last_call'.var \in WriteVars /\ last_call'.open /\ last_call'.resp = "ok")
          => /\ last_call'.var \notin disabled_variables'
             /\ write_timeout_count'[last_call'.var] = 0
      ]_vars

\* C11: the breaker is kept per variable name: a call _safe_write for V, whatever
\* its outcome (the write returns, raises or times out, V becomes disabled, or the
\* call is skipped), leaves the counter of every other variable W and W's membership
\* of the disabled set as they were; and a call for a W that is not disabled, made
\* with the session open, makes its underlying write whatever other variables are
\* disabled.
C11_BreakerPerVariable ==
    [][ last_call'.var \in WriteVars
          => /\ \A w \in WriteVars \ {last_call'.var} :
                   /\ write_timeout_count'[w] = write_timeout_count[w]
                   /\ (w \in disabled_variables') <=> (w \in disabled_variables)
             /\ (last_call'.open /\ last_call'.var \notin disabled_variables)
                   => last_call'.io
      ]_vars

\* with one variable disabled by its timeouts, a write to another variable has made
\* its underlying write, and the disabled variable kept its counter
C11_Witness ==
    /\ last_call.var \in WriteVars \ disabled_variables
    /\ last_call.open /\ last_call.io /\ last_call.resp = "raise"
    /\ \E v \in disabled_variables :
          /\ v # last_call.var
          /\ write_timeout_count[v] = max_consecutive_timeouts

\* C18: a call _safe_write made while the session is not open, or for a variable
\* that is disabled, returns False without calling write_by_name, and leaves every
\* counter, the disabled set and the controller's variables as they were.
C18_SkippedWriteChangesNothing ==
    [][ (/\ last_call'.var \in WriteVars
         /\ (~last_call'.open \/ last_call'.var \in disabled_variables))
          => /\ ~last_call'.io
             /\ ~last_call'.ret
             /\ UNCHANGED <<write_timeout_count, disabled_variables, plc>>
      ]_vars

\* a write was attempted on a closed session for a variable that is not disabled
\* and has two timeouts counted: no underlying write was made and the counter stayed
C18_Witness ==
    /\ last_call.var \in WriteVars \ disabled_variables
    /\ ~last_call.open
    /\ ~last_call.io
    /\ ~last_call.ret
    /\ last_call.resp = "ok"
    /\ write_timeout_count[last_call.var] = max_consecutive_timeouts - 1

\* C12 as stated: reset_disabled_variables leaves the disabled set empty and every
\* counter at zero, so that the next write to a variable, made with the session open,
\* makes its underlying write starting from a counter of zero; and the call returns
\* the number of variables that were disabled when it was made.
C12_ResetReturnsCount ==
    [][ /\ host_call'.op = "reset_disabled_variables"
            => /\ disabled_variables' = {}
               /\ \A v \in WriteVars : write_timeout_count'[v] = 0
               /\ host_call'.ret = <<Cardinality(disabled_variables)>>
        /\ (host_call.op = "reset_disabled_variables"
               /\ last_call'.var \in WriteVars /\ last_call'.open)
            => /\ last_call'.io
               /\ write_timeout_count[last_call'.var] = 0
      ]_vars

----------------------------------------------------------------------------
(* SpecSession: the life cycle of the session, followed call by call with  *)
(* no poll thread alive: connect with its open attempts and error texts,   *)
(* disconnect, stop_polling, and start_polling up to a failed connect.     *)

\* what self.plc.open() may do: return with the session open ("ok"), return with
\* is_open still False ("closed", provided for at line 326), or raise: an ADSError
\* with code 19, an ADSError with another code, an ADSError with another code whose
\* text mentions a locked port, another exception whose text mentions a locked
\* port, another exception
OpenErrors == {"ads19", "ads", "adslock", "lock", "err"}
OpenResp == {"ok", "closed"} \cup OpenErrors
RetryResp == {"ok", "ads", "err"}
\* what self.plc.close() may do
CloseResp == {"ok", "raise"}

\* except pyads.ADSError
IsADSError(e) == e \in {"ads19", "ads", "adslock"}
\* getattr(e, 'ads_err_code', None) == 19
IsCode19(e) == e = "ads19"
\* the test of line 375 on the lowered text
MentionsLock(e) == e \in {"adslock", "lock"}
\* type(e).__name__ ("closed" is the Exception raised at line 327)
TypeName(e) == IF IsADSError(e) THEN "ADSError"
               ELSE IF e = "closed" THEN "Exception" ELSE "OSError"
\* str(e)
str(e) == <<e>>

\* variant: the retry of line 375 also for an exception that mentions no lock
Retried_always(first) ==
    IF IsADSError(first) THEN IsCode19(first) ELSE TRUE

\* whether connect makes a second open attempt after the first has done `first`
Retried(first) ==
    IF IsADSError(first) THEN IsCode19(first) ELSE MentionsLock(first)

\* connect() from line 313 on: the value returned, the number of open() calls,
\* whether the session is open afterwards, and self._last_connection_error
connect_result(first, retry) ==
    IF first = "ok"
    THEN [ret |-> TRUE, opens |-> 1, open |-> TRUE, err |-> last_connection_error]
    ELSE IF Retried(first) /\ retry = "ok"
    THEN [ret |-> TRUE, opens |-> 2, open |-> TRUE, err |-> last_connection_error]
    ELSE LET error_msg == IF Retried(first)
                          THEN str(first) \o <<" (Retry failed: ">> \o str(retry)
                                          \o <<")">>
                          ELSE str(first)
         IN [ret |-> FALSE, opens |-> IF Retried(first) THEN 2 ELSE 1, open |-> FALSE,
             err |-> IF IsADSError(first) THEN error_msg
                     ELSE <<TypeName(first), ": ">> \o error_msg]

\* get_last_error()
get_last_error ==
    IF last_connection_error # None THEN last_connection_error ELSE last_polling_error

\* variant: without the finally clause
disconnect_no_finally(cl) ==
    [open |-> plc_open /\ cl = "raise", closes |-> IF plc_open THEN 1 ELSE 0]

\* disconnect(): whether the session is open afterwards and the number of close()
\* calls; close() is called when the session is open, and self.plc is None afterwards
\* whatever close() did
disconnect(cl) ==
    [open |-> FALSE, closes |-> IF plc_open THEN 1 ELSE 0]

\* what a call leaves alone in SpecSession
SessionFrame ==
    /\ last_call' = NoCall
    /\ UNCHANGED <<plc, last_trigger_state, measurement_in_progress,
                   last_start_cont_state, last_stop_cont_state, write_timeout_count,
                   disabled_variables, pollPc, trigger, hostPc, current_trigger>>
    /\ UNCHANGED <<histVars, epi, threadVars>>

\* connect(), called by the host: lines 295-311 close and drop an open session
ConnectSession(cl, first, retry) ==
    /\ hostPc = "idle"
    /\ pollPc \in {"none", "dead"}
    /\ plc_open' = connect_result(first, retry).open
    /\ last_connection_error' = connect_result(first, retry).err
    /\ host_call' = [NoHostCall EXCEPT
                       !.op = "connect",
                       !.open = plc_open,
                       !.close = IF plc_open THEN cl ELSE "-",
                       !.closes = IF plc_open THEN 1 ELSE 0,
                       !.first = first,
                       !.retry = IF connect_result(first, retry).opens = 2
                                 THEN retry ELSE "-",
                       !.opens = connect_result(first, retry).opens,
                       !.ret = <<connect_result(first, retry).ret>>]
    /\ UNCHANGED <<running, last_polling_error>>
    /\ SessionFrame

\* disconnect(), called by the host
DisconnectSession(cl) ==
    /\ hostPc = "idle"
    /\ pollPc \in {"none", "dead"}
    /\ plc_open' = disconnect(cl).open
    /\ host_call' = [NoHostCall EXCEPT
                       !.op = "disconnect",
                       !.open = plc_open,
                       !.close = IF plc_open THEN cl ELSE "-",
                       !.closes = disconnect(cl).closes]
    /\ UNCHANGED <<running, errVars>>
    /\ SessionFrame

\* stop_polling(), called by the host while no poll thread is alive: the join, if
\* any, returns at once
StopPollingSession(cl) ==
    /\ hostPc = "idle"
    /\ pollPc \in {"none", "dead"}
    /\ running' = FALSE
    /\ plc_open' = disconnect(cl).open
    /\ host_call' = [NoHostCall EXCEPT
                       !.op = "stop_polling",
                       !.open = plc_open,
                       !.close = IF plc_open THEN cl ELSE "-",
                       !.closes = disconnect(cl).closes]
    /\ UNCHANGED errVars
    /\ SessionFrame

\* start_polling(), called by the host with no session open, when its connect()
\* fails (lines 446-457); when connect() succeeds the poll thread is started
StartPollingRefused(first, retry) ==
    /\ hostPc = "idle"
    /\ pollPc \in {"none", "dead"}
    /\ ~running
    /\ ~plc_open
    /\ ~connect_result(first, retry).ret
    /\ plc_open' = FALSE
    /\ last_connection_error' = connect_result(first, retry).err
    /\ last_polling_error' =
           IF last_connection_error' # None
           THEN <<"Failed to connect to PLC - polling not started", "\n">>
                    \o last_connection_error'
           ELSE <<"Failed to connect to PLC - polling not started">>
    /\ host_call' = [NoHostCall EXCEPT
                       !.op = "start_polling",
                       !.first = first,
                       !.retry = IF connect_result(first, retry).opens = 2
                                 THEN retry ELSE "-",
                       !.opens = connect_result(first, retry).opens,
                       !.ret = <<FALSE>>]
    /\ UNCHANGED running
    /\ SessionFrame

NextSession ==
    \/ \E cl \in CloseResp, first \in OpenResp, retry \in RetryResp :
           ConnectSession(cl, first, retry)
    \/ \E cl \in CloseResp : DisconnectSession(cl)
    \/ \E cl \in CloseResp : StopPollingSession(cl)
    \/ \E first \in OpenResp, retry \in RetryResp : StartPollingRefused(first, retry)

SpecSession == Init /\ [][NextSession]_vars

\* C13 as stated: a call of stop_polling made while polling is not running changes
\* nothing: the session, if open, stays open (is_connected keeps its value), and
\* running, the trigger state, the breaker and the error texts stay as they were.
C13_StopWhenNotRunningIsNoOp ==
    [][ (host_call'.op = "stop_polling" /\ ~running)
          => /\ plc_open' = plc_open
             /\ UNCHANGED <<coreVars, errVars>>
      ]_vars

\* C14: when disconnect returns the session is not open (is_connected is False),
\* whether close() returned or raised and whether or not a session was open at the
\* call; close() is called only for a session that is open; and a disconnect that
\* directly follows a disconnect calls close() no time and changes no state.
C14_DisconnectLeavesDisconnected ==
    [][ host_call'.op = "disconnect"
          => /\ ~plc_open'
             /\ host_call'.closes = (IF plc_open THEN 1 ELSE 0)
             /\ host_call.op = "disconnect"
                   => /\ host_call'.closes = 0
                      /\ UNCHANGED <<coreVars, errVars>>
      ]_vars

\* disconnect was called with a session open, close() raised, and the session is
\* not open
C14_Witness ==
    /\ host_call.op = "disconnect"
    /\ host_call.open
    /\ host_call.close = "raise"
    /\ ~plc_open

\* C15: one call of connect calls open() once or twice; it calls it a second time
\* only when the first call raised an ADSError with code 19 or an error whose text
\* mentions a locked or unopenable port; after any other failure of the first call
\* (open() returning with the session not open included) connect returns False
\* having called open() once.
C15_AtMostOneRetry ==
    host_call.op = "connect"
      => /\ host_call.opens \in {1, 2}
         /\ host_call.opens = 2
               => (IsCode19(host_call.first) \/ MentionsLock(host_call.first))
         /\ (host_call.first # "ok" /\ ~IsCode19(host_call.first)
                                    /\ ~MentionsLock(host_call.first))
               => (host_call.opens = 1 /\ host_call.ret = <<FALSE>>)

\* a connect whose first open() raised the code 19 error has called open() a second
\* time and returned True
C15_Witness ==
    /\ host_call.op = "connect"
    /\ host_call.first = "ads19"
    /\ host_call.opens = 2
    /\ host_call.ret = <<TRUE>>
    /\ plc_open

\* C16 as stated: connect closes an open session before it opens a new one; when it
\* returns True the session is open; when it returns False the session is not open
\* and, if open() was called once only, get_last_error() returns exactly the text of
\* the error that open() raised.
C16_FailureKeepsErrorText ==
    host_call.op = "connect"
      => /\ host_call.open => host_call.closes = 1
         /\ host_call.ret = <<TRUE>> => plc_open
         /\ host_call.ret = <<FALSE>>
               => /\ ~plc_open
                  /\ host_call.opens = 1 => get_last_error = str(host_call.first)

----------------------------------------------------------------------------
(* SpecStop: Spec with the join of stop_polling bounded: the join returns  *)
(* after its timeout with the poll thread still in its iteration, and      *)
(* stop_polling disconnects under it.  epi is "stopped" from the return of *)
(* stop_polling until the host calls start_polling.  A start_polling is    *)
(* followed once the previous thread has left its loop (SpecStop keeps one *)
(* poll thread).                                                           *)

\* stop_polling(): self.poll_thread.join(timeout=2.0) returns with the thread still
\* alive, then disconnect()
StopJoinTimeout ==
    /\ hostPc = "join"
    /\ pollPc \notin {"none", "dead"}
    /\ plc_open' = FALSE
    /\ hostPc' = "idle"
    /\ UNCHANGED <<plc, running, last_trigger_state, measurement_in_progress,
                   last_start_cont_state, last_stop_cont_state, write_timeout_count,
                   disabled_variables, pollPc, trigger, current_trigger>>
    /\ UNCHANGED pubEv

\* start_polling(), called when no earlier poll thread is alive
StartPollingFresh(conn, rd) ==
    /\ pollPc \in {"none", "dead"}
    /\ StartPolling(conn, rd)

\* stop_polling returns in this step
StopReturning == hostPc = "join" /\ hostPc' = "idle"

\* the poll thread executes, in this step, a statement that reads or writes a
\* variable of the controller, invokes the callback, or reconnects after a failed
\* read
PollActing ==
    /\ pollPc' # pollPc
    /\ pollPc \in {"read", "wbusy", "wready", "call", "werror", "wbusy0", "ack",
                    "cont"}

ObserveStop ==
    /\ epi' = IF StopReturning THEN "stopped" ELSE epi
    /\ UNCHANGED <<dispatches, in_progress_dispatches, seed, last_call, host_call,
                   errVars, threadVars>>

ObserveRestart ==
    /\ epi' = "none"
    /\ UNCHANGED <<dispatches, in_progress_dispatches, seed, last_call, host_call,
                   errVars, threadVars>>

NextStop ==
    \/ PollTop /\ ObserveStop
    \/ (\E rd \in ReadResp, conn \in ReadResp : PollRead(rd, conn)) /\ ObserveStop
    \/ PollEdge /\ ObserveStop
    \/ PollSetInProgress /\ ObserveStop
    \/ (\E r \in WriteResp("busy") : PollWriteBusy(r)) /\ ObserveStop
    \/ (\E r \in WriteResp("ready") : PollWriteReady(r)) /\ ObserveStop
    \/ (\E cb \in CbResp : PollCallback(cb)) /\ ObserveStop
    \/ PollCallbackError /\ ObserveStop
    \/ (\E r \in WriteResp("error") : PollWriteError(r)) /\ ObserveStop
    \/ (\E r \in WriteResp("busy") : PollWriteBusyFalse(r)) /\ ObserveStop
    \/ PollAck /\ ObserveStop
    \/ (\E rd \in ReadResp, cb \in CbResp : PollContinuous(rd, cb)) /\ ObserveStop
    \/ PollUpdateTest /\ ObserveStop
    \/ PollAssign /\ ObserveStop
    \/ PublishCall /\ ObserveStop
    \/ (\E rd \in ReadResp : PublishRead(rd)) /\ ObserveStop
    \/ PublishSync /\ ObserveStop
    \/ (\E f \in ResultFields : \E r \in FieldResp(f) : PublishField(f, r)) /\ ObserveStop
    \/ (\E r \in WriteResp("busy") : PublishBusy(r)) /\ ObserveStop
    \/ (\E r \in WriteResp("ready") : PublishReady(r)) /\ ObserveStop
    \/ (\E r \in WriteResp("error") : PublishError(r)) /\ ObserveStop
    \/ PublishClear /\ ObserveStop
    \/ (\E r \in WriteResp("busy") : PublishFallbackBusy(r)) /\ ObserveStop
    \/ PublishFallbackClear /\ ObserveStop
    \/ (\E rd \in ReadResp : PublishFallbackRead(rd)) /\ ObserveStop
    \/ PublishFallbackSync /\ ObserveStop
    \/ PublishFallbackDefault /\ ObserveStop
    \/ PublishReturn /\ ObserveStop
    \/ (\E conn \in ReadResp, rd \in ReadResp : StartPollingFresh(conn, rd))
          /\ ObserveRestart
    \/ StopPolling /\ ObserveStop
    \/ StopJoined /\ ObserveStop
    \/ StopJoinTimeout /\ ObserveStop
    \/ Raise /\ ObserveStop
    \/ Lower /\ ObserveStop

SpecStop == Init /\ [][NextStop]_vars

\* C17 as stated: from the return of stop_polling until the host calls
\* start_polling, the poll thread makes no read, no write, no callback and no
\* connect, and the session stays closed, also when the join has timed out with the
\* thread in its iteration.
C17_NothingAfterStopReturns ==
    [][ (epi = "stopped" /\ epi' = "stopped")
          => /\ ~PollActing
             /\ ~plc_open'
      ]_vars

----------------------------------------------------------------------------
(* SpecHeld: Spec, observed for a trigger that is raised once and held.    *)
(* epi is "held" from a step in which the controller raises the trigger    *)
(* while polling runs on an open session, for as long as the trigger stays *)
(* true, polling is not stopped, and write_measurement_result meets no     *)
(* failed trigger read and no exception; dispatches counts the invocations *)
(* of the callback since that raise.                                       *)

Raising == plc'["trigger"] /\ ~plc["trigger"]
Lowering == ~plc'["trigger"] /\ plc["trigger"]
Stopping == running /\ ~running'

\* the step is a failed trigger read of write_measurement_result, or an exception in it
PublishFailing ==
    \/ hostPc = "rd" /\ hostPc' = "thickness"
    \/ hostPc # "fbusy" /\ hostPc' = "fbusy"
    \/ hostPc = "fread" /\ hostPc' = "fdefault"

\* the call of write_measurement_result in progress, if any, has met neither so far
PublishSound ==
    \/ hostPc \in {"idle", "join", "rd", "sync"}
    \/ (Has(pubEv, "sync") \/ Has(pubEv, "closed")) /\ ~Has(pubEv, "fault")

ObserveHeld ==
    /\ epi' = IF Raising
              THEN (IF running /\ plc_open /\ PublishSound THEN "held" ELSE "none")
              ELSE IF Lowering \/ Stopping \/ PublishFailing THEN "none"
              ELSE epi
    /\ dispatches' = IF epi' # "held" \/ Raising THEN 0
                     ELSE IF Dispatching THEN Min(dispatches + 1, MaxDispatch)
                     ELSE dispatches
    /\ ObserveInProgress
    /\ ObserveSeed
    /\ UNCHANGED <<last_call, host_call, errVars, threadVars>>

NextHeld ==
    \/ PollTop /\ ObserveHeld
    \/ (\E rd \in ReadResp, conn \in ReadResp : PollRead(rd, conn)) /\ ObserveHeld
    \/ PollEdge /\ ObserveHeld
    \/ PollSetInProgress /\ ObserveHeld
    \/ (\E r \in WriteResp("busy") : PollWriteBusy(r)) /\ ObserveHeld
    \/ (\E r \in WriteResp("ready") : PollWriteReady(r)) /\ ObserveHeld
    \/ (\E cb \in CbResp : PollCallback(cb)) /\ ObserveHeld
    \/ PollCallbackError /\ ObserveHeld
    \/ (\E r \in WriteResp("error") : PollWriteError(r)) /\ ObserveHeld
    \/ (\E r \in WriteResp("busy") : PollWriteBusyFalse(r)) /\ ObserveHeld
    \/ PollAck /\ ObserveHeld
    \/ (\E rd \in ReadResp, cb \in CbResp : PollContinuous(rd, cb)) /\ ObserveHeld
    \/ PollUpdateTest /\ ObserveHeld
    \/ PollAssign /\ ObserveHeld
    \/ PublishCall /\ ObserveHeld
    \/ (\E rd \in ReadResp : PublishRead(rd)) /\ ObserveHeld
    \/ PublishSync /\ ObserveHeld
    \/ (\E f \in ResultFields : \E r \in FieldResp(f) : PublishField(f, r)) /\ ObserveHeld
    \/ (\E r \in WriteResp("busy") : PublishBusy(r)) /\ ObserveHeld
    \/ (\E r \in WriteResp("ready") : PublishReady(r)) /\ ObserveHeld
    \/ (\E r \in WriteResp("error") : PublishError(r)) /\ ObserveHeld
    \/ PublishClear /\ ObserveHeld
    \/ (\E r \in WriteResp("busy") : PublishFallbackBusy(r)) /\ ObserveHeld
    \/ PublishFallbackClear /\ ObserveHeld
    \/ (\E rd \in ReadResp : PublishFallbackRead(rd)) /\ ObserveHeld
    \/ PublishFallbackSync /\ ObserveHeld
    \/ PublishFallbackDefault /\ ObserveHeld
    \/ PublishReturn /\ ObserveHeld
    \/ (\E conn \in ReadResp, rd \in ReadResp : StartPolling(conn, rd)) /\ ObserveHeld
    \/ StopPolling /\ ObserveHeld
    \/ StopJoined /\ ObserveHeld
    \/ Raise /\ ObserveHeld
    \/ Lower /\ ObserveHeld

SpecHeld == Init /\ [][NextHeld]_vars

\* C2 as stated, in the half a finite run refutes: while a trigger raised once is
\* held true, with write_measurement_result running on the host thread and
\* interleaving with the poll cycles statement by statement, the callback is invoked
\* at most once.
C2_HeldTriggerDispatchedOnce == epi = "held" => dispatches <= 1

----------------------------------------------------------------------------
(* SpecEpisode: Spec, observed for the episode in which the controller     *)
(* lowers and raises the trigger again while a measurement is in progress. *)
(* epi is "disp" from an invocation of the callback made while the trigger *)
(* is true and write_measurement_result is not running, "low" once the     *)
(* controller has lowered the trigger, "re" once it has raised it again,   *)
(* "pub" while the next write_measurement_result runs and "after" once it  *)
(* has returned.  The episode is left ("none") when polling is stopped,    *)
(* when write_measurement_result is called before the second raise or a    *)
(* second time, when it meets a failed trigger read or an exception, and   *)
(* when the trigger is lowered after the second raise.  dispatches counts  *)
(* the invocations of the callback in the episode, the first included.     *)

PublishCalling == hostPc = "idle" /\ hostPc' \in {"rd", "ret"}
PublishReturning == hostPc = "ret" /\ hostPc' = "idle"

EpisodeStep ==
    IF Stopping \/ PublishFailing THEN "none"
    ELSE CASE epi = "none" ->
                IF Dispatching /\ plc["trigger"] /\ hostPc = "idle" THEN "disp" ELSE "none"
           [] epi = "disp" ->
                IF Lowering THEN "low" ELSE IF PublishCalling THEN "none" ELSE "disp"
           [] epi = "low" ->
                IF Raising THEN "re" ELSE IF PublishCalling THEN "none" ELSE "low"
           [] epi = "re" ->
                IF Lowering THEN "none"
                ELSE IF PublishCalling THEN (IF hostPc' = "rd" THEN "pub" ELSE "none")
                ELSE "re"
           [] epi = "pub" ->
                IF Lowering THEN "none" ELSE IF PublishReturning THEN "after" ELSE "pub"
           [] OTHER ->
                IF Lowering \/ PublishCalling THEN "none" ELSE "after"

ObserveEpisode ==
    /\ epi' = EpisodeStep
    /\ dispatches' = IF epi' = "none" THEN 0
                     ELSE IF epi = "none" THEN 1
                     ELSE IF Dispatching THEN Min(dispatches + 1, MaxDispatch)
                     ELSE dispatches
    /\ ObserveInProgress
    /\ ObserveSeed
    /\ UNCHANGED <<last_call, host_call, errVars, threadVars>>

NextEpisode ==
    \/ PollTop /\ ObserveEpisode
    \/ (\E rd \in ReadResp, conn \in ReadResp : PollRead(rd, conn)) /\ ObserveEpisode
    \/ PollEdge /\ ObserveEpisode
    \/ PollSetInProgress /\ ObserveEpisode
    \/ (\E r \in WriteResp("busy") : PollWriteBusy(r)) /\ ObserveEpisode
    \/ (\E r \in WriteResp("ready") : PollWriteReady(r)) /\ ObserveEpisode
    \/ (\E cb \in CbResp : PollCallback(cb)) /\ ObserveEpisode
    \/ PollCallbackError /\ ObserveEpisode
    \/ (\E r \in WriteResp("error") : PollWriteError(r)) /\ ObserveEpisode
    \/ (\E r \in WriteResp("busy") : PollWriteBusyFalse(r)) /\ ObserveEpisode
    \/ PollAck /\ ObserveEpisode
    \/ (\E rd \in ReadResp, cb \in CbResp : PollContinuous(rd, cb)) /\ ObserveEpisode
    \/ PollUpdateTest /\ ObserveEpisode
    \/ PollAssign /\ ObserveEpisode
    \/ PublishCall /\ ObserveEpisode
    \/ (\E rd \in ReadResp : PublishRead(rd)) /\ ObserveEpisode
    \/ PublishSync /\ ObserveEpisode
    \/ (\E f \in ResultFields : \E r \in FieldResp(f) : PublishField(f, r)) /\ ObserveEpisode
    \/ (\E r \in WriteResp("busy") : PublishBusy(r)) /\ ObserveEpisode
    \/ (\E r \in WriteResp("ready") : PublishReady(r)) /\ ObserveEpisode
    \/ (\E r \in WriteResp("error") : PublishError(r)) /\ ObserveEpisode
    \/ PublishClear /\ ObserveEpisode
    \/ (\E r \in WriteResp("busy") : PublishFallbackBusy(r)) /\ ObserveEpisode
    \/ PublishFallbackClear /\ ObserveEpisode
    \/ (\E rd \in ReadResp : PublishFallbackRead(rd)) /\ ObserveEpisode
    \/ PublishFallbackSync /\ ObserveEpisode
    \/ PublishFallbackDefault /\ ObserveEpisode
    \/ PublishReturn /\ ObserveEpisode
    \/ (\E conn \in ReadResp, rd \in ReadResp : StartPolling(conn, rd)) /\ ObserveEpisode
    \/ StopPolling /\ ObserveEpisode
    \/ StopJoined /\ ObserveEpisode
    \/ Raise /\ ObserveEpisode
    \/ Lower /\ ObserveEpisode

SpecEpisode == Init /\ [][NextEpisode]_vars

\* C7 as stated: in such an episode the callback is invoked once in all, also by the
\* poll cycles that read the trigger True after write_measurement_result has returned,
\* and last_trigger_state is True when write_measurement_result returns.
C7_OneDispatchPerEpisode ==
    /\ epi # "none" => dispatches = 1
    /\ (epi = "pub" /\ hostPc = "ret") => last_trigger_state

----------------------------------------------------------------------------
(* SpecLive: Spec with a poll thread that keeps running, observed for the  *)
(* next cycle of the controller.  epi is "ret" from a return of            *)
(* write_measurement_result that leaves no measurement in progress, with   *)
(* polling running on an open session; "low" once a poll cycle has then    *)
(* read the trigger False; "up" once the controller has raised the trigger *)
(* after that, until the callback is invoked.  The scenario is left        *)
(* ("none") when polling is stopped, when the callback is invoked before   *)
(* the raise, when the trigger is lowered after the raise, when a trigger  *)
(* read of the poll loop fails after the raise, and when                   *)
(* write_measurement_result meets a failed trigger read or an exception.   *)

PollReadingFalse == pollPc = "read" /\ pollPc' = "edge" /\ ~trigger'
PollReadFailing == pollPc = "read" /\ pollPc' = "top"

LiveStep ==
    IF Stopping \/ PublishFailing THEN "none"
    ELSE CASE epi = "none" ->
                IF PublishReturning /\ running /\ plc_open /\ ~measurement_in_progress
                THEN "ret" ELSE "none"
           [] epi = "ret" ->
                IF Dispatching THEN "none" ELSE IF PollReadingFalse THEN "low" ELSE "ret"
           [] epi = "low" ->
                IF Dispatching THEN "none" ELSE IF Raising THEN "up" ELSE "low"
           [] OTHER ->
                IF Dispatching \/ Lowering \/ PollReadFailing THEN "none" ELSE "up"

ObserveLive ==
    /\ epi' = LiveStep
    /\ ObserveInProgress
    /\ ObserveSeed
    /\ UNCHANGED <<dispatches, last_call, host_call, errVars, threadVars>>

PollLive ==
    \/ PollTop /\ ObserveLive
    \/ (\E rd \in ReadResp, conn \in ReadResp : PollRead(rd, conn)) /\ ObserveLive
    \/ PollEdge /\ ObserveLive
    \/ PollSetInProgress /\ ObserveLive
    \/ (\E r \in WriteResp("busy") : PollWriteBusy(r)) /\ ObserveLive
    \/ (\E r \in WriteResp("ready") : PollWriteReady(r)) /\ ObserveLive
    \/ (\E cb \in CbResp : PollCallback(cb)) /\ ObserveLive
    \/ PollCallbackError /\ ObserveLive
    \/ (\E r \in WriteResp("error") : PollWriteError(r)) /\ ObserveLive
    \/ (\E r \in WriteResp("busy") : PollWriteBusyFalse(r)) /\ ObserveLive
    \/ PollAck /\ ObserveLive
    \/ (\E rd \in ReadResp, cb \in CbResp : PollContinuous(rd, cb)) /\ ObserveLive
    \/ PollUpdateTest /\ ObserveLive
    \/ PollAssign /\ ObserveLive
    \/ (\E conn \in ReadResp, rd \in ReadResp : StartPolling(conn, rd)) /\ ObserveLive
    \/ StopPolling /\ ObserveLive

NextLive ==
    \/ PollTop /\ ObserveLive
    \/ (\E rd \in ReadResp, conn \in ReadResp : PollRead(rd, conn)) /\ ObserveLive
    \/ PollEdge /\ ObserveLive
    \/ PollSetInProgress /\ ObserveLive
    \/ (\E r \in WriteResp("busy") : PollWriteBusy(r)) /\ ObserveLive
    \/ (\E r \in WriteResp("ready") : PollWriteReady(r)) /\ ObserveLive
    \/ (\E cb \in CbResp : PollCallback(cb)) /\ ObserveLive
    \/ PollCallbackError /\ ObserveLive
    \/ (\E r \in WriteResp("error") : PollWriteError(r)) /\ ObserveLive
    \/ (\E r \in WriteResp("busy") : PollWriteBusyFalse(r)) /\ ObserveLive
    \/ PollAck /\ ObserveLive
    \/ (\E rd \in ReadResp, cb \in CbResp : PollContinuous(rd, cb)) /\ ObserveLive
    \/ PollUpdateTest /\ ObserveLive
    \/ PollAssign /\ ObserveLive
    \/ PublishCall /\ ObserveLive
    \/ (\E rd \in ReadResp : PublishRead(rd)) /\ ObserveLive
    \/ PublishSync /\ ObserveLive
    \/ (\E f \in ResultFields : \E r \in FieldResp(f) : PublishField(f, r)) /\ ObserveLive
    \/ (\E r \in WriteResp("busy") : PublishBusy(r)) /\ ObserveLive
    \/ (\E r \in WriteResp("ready") : PublishReady(r)) /\ ObserveLive
    \/ (\E r \in WriteResp("error") : PublishError(r)) /\ ObserveLive
    \/ PublishClear /\ ObserveLive
    \/ (\E r \in WriteResp("busy") : PublishFallbackBusy(r)) /\ ObserveLive
    \/ PublishFallbackClear /\ ObserveLive
    \/ (\E rd \in ReadResp : PublishFallbackRead(rd)) /\ ObserveLive
    \/ PublishFallbackSync /\ ObserveLive
    \/ PublishFallbackDefault /\ ObserveLive
    \/ PublishReturn /\ ObserveLive
    \/ (\E conn \in ReadResp, rd \in ReadResp : StartPolling(conn, rd)) /\ ObserveLive
    \/ StopPolling /\ ObserveLive
    \/ StopJoined /\ ObserveLive
    \/ Raise /\ ObserveLive
    \/ Lower /\ ObserveLive

PublishLive ==
    \/ (\E rd \in ReadResp : PublishRead(rd)) /\ ObserveLive
    \/ PublishSync /\ ObserveLive
    \/ (\E f \in ResultFields : \E r \in FieldResp(f) : PublishField(f, r)) /\ ObserveLive
    \/ (\E r \in WriteResp("busy") : PublishBusy(r)) /\ ObserveLive
    \/ (\E r \in WriteResp("ready") : PublishReady(r)) /\ ObserveLive
    \/ (\E r \in WriteResp("error") : PublishError(r)) /\ ObserveLive
    \/ PublishClear /\ ObserveLive
    \/ (\E r \in WriteResp("busy") : PublishFallbackBusy(r)) /\ ObserveLive
    \/ PublishFallbackClear /\ ObserveLive
    \/ (\E rd \in ReadResp : PublishFallbackRead(rd)) /\ ObserveLive
    \/ PublishFallbackSync /\ ObserveLive
    \/ PublishFallbackDefault /\ ObserveLive
    \/ PublishReturn /\ ObserveLive

\* the poll thread is a thread of its own and each of its statements returns, so it
\* keeps taking steps; a call of write_measurement_result, once made, runs to its end
SpecLive == Init /\ [][NextLive]_vars /\ WF_vars(PollLive) /\ WF_vars(PublishLive)

\* C8 as stated: once write_measurement_result has returned, a poll cycle has read the
\* trigger False and the controller has raised the trigger again and holds it, the
\* callback is eventually invoked.
C8_NextCycleDispatched == (epi = "up") ~> (epi # "up")

----------------------------------------------------------------------------
(* SpecFields: Spec, observed for the result fields of the call of         *)
(* write_measurement_result in progress.  epi is "refused" once the        *)
(* _safe_write of a field that is present has returned False in this call, *)
(* and "stale" once the write ready = True has then returned True.         *)

\* the frame of the observers of SpecFields
FieldsFrame ==
    UNCHANGED <<dispatches, in_progress_dispatches, seed, last_call, host_call,
                errVars, threadVars>>

\* a step that is not a field write or the ready write; the call of
\* write_measurement_result starts the observation anew
ObserveFields ==
    /\ epi' = IF hostPc = "idle" /\ hostPc' # "idle" THEN "none" ELSE epi
    /\ FieldsFrame

\* one of the field blocks of lines 737-764: whether its _safe_write returned False
ObserveField(f, r) ==
    /\ epi' = IF /\ r \notin {"absent", "fault"}
                 /\ ~safe_write(f, IF r = "okfault" THEN "ok" ELSE r).ret
              THEN "refused" ELSE epi
    /\ FieldsFrame

\* the ready write of line 769: whether it returned True after a refused field
ObserveReady(r) ==
    /\ epi' = IF epi = "refused" /\ safe_write("ready", r).ret THEN "stale" ELSE epi
    /\ FieldsFrame

NextFields ==
    \/ PollTop /\ ObserveFields
    \/ (\E rd \in ReadResp, conn \in ReadResp : PollRead(rd, conn)) /\ ObserveFields
    \/ PollEdge /\ ObserveFields
    \/ PollSetInProgress /\ ObserveFields
    \/ (\E r \in WriteResp("busy") : PollWriteBusy(r)) /\ ObserveFields
    \/ (\E r \in WriteResp("ready") : PollWriteReady(r)) /\ ObserveFields
    \/ (\E cb \in CbResp : PollCallback(cb)) /\ ObserveFields
    \/ PollCallbackError /\ ObserveFields
    \/ (\E r \in WriteResp("error") : PollWriteError(r)) /\ ObserveFields
    \/ (\E r \in WriteResp("busy") : PollWriteBusyFalse(r)) /\ ObserveFields
    \/ PollAck /\ ObserveFields
    \/ (\E rd \in ReadResp, cb \in CbResp : PollContinuous(rd, cb)) /\ ObserveFields
    \/ PollUpdateTest /\ ObserveFields
    \/ PollAssign /\ ObserveFields
    \/ PublishCall /\ ObserveFields
    \/ (\E rd \in ReadResp : PublishRead(rd)) /\ ObserveFields
    \/ PublishSync /\ ObserveFields
    \/ (\E f \in ResultFields : \E r \in FieldResp(f) :
           PublishField(f, r) /\ ObserveField(f, r))
    \/ (\E r \in WriteResp("busy") : PublishBusy(r)) /\ ObserveFields
    \/ (\E r \in WriteResp("ready") : PublishReady(r) /\ ObserveReady(r))
    \/ (\E r \in WriteResp("error") : PublishError(r)) /\ ObserveFields
    \/ PublishClear /\ ObserveFields
    \/ (\E r \in WriteResp("busy") : PublishFallbackBusy(r)) /\ ObserveFields
    \/ PublishFallbackClear /\ ObserveFields
    \/ (\E rd \in ReadResp : PublishFallbackRead(rd)) /\ ObserveFields
    \/ PublishFallbackSync /\ ObserveFields
    \/ PublishFallbackDefault /\ ObserveFields
    \/ PublishReturn /\ ObserveFields
    \/ (\E conn \in ReadResp, rd \in ReadResp : StartPolling(conn, rd)) /\ ObserveFields
    \/ StopPolling /\ ObserveFields
    \/ StopJoined /\ ObserveFields
    \/ Raise /\ ObserveFields
    \/ Lower /\ ObserveFields

SpecFields == Init /\ [][NextFields]_vars

\* C21 as stated: write_measurement_result writes ready = True only when the write
\* of every field present in the result has returned True in the same call, so the
\* controller never sees ready = True next to a field of an older measurement.
C21_ReadyOnlyAfterAllFields == epi # "stale"

----------------------------------------------------------------------------
(* SpecWrite: _safe_write step by step, called by one caller on an open    *)
(* session.  The call starts a write thread and joins it with a timeout;   *)
(* a thread that is still alive when the join returns is abandoned and its *)
(* write_by_name may return, raise, or never end.  epi is "late" once the  *)
(* write of an abandoned thread has changed a variable of the controller   *)
(* after a later _safe_write of that variable had returned True.           *)

\* the number of abandoned write threads the model follows at a time
MaxAbandoned == 1

\* the writes SpecWrite follows: the variable and the value
FineWrites == {<<"busy", TRUE>>, <<"busy", FALSE>>, <<"ready", TRUE>>}

RemoveAt(s, i) == SubSeq(s, 1, i - 1) \o SubSeq(s, i + 1, Len(s))

\* the thread the caller is joining
Joined == CHOOSE i \in 1..Len(write_threads) : write_threads[i].joined

\* variant: a join without a timeout
join_returns_unbounded(t) == t.st # "run"

\* write_thr.join(timeout=timeout) returns when the thread has ended, and also, the
\* thread alive, when the timeout has passed
join_returns(t) == TRUE

\* what _safe_write goes by after the join: is_alive(), exception[0], result[0]
join_result(t) ==
    IF t.st = "run" THEN "timeout" ELSE IF t.st = "raised" THEN "raise" ELSE "ok"

\* _safe_write(variable_name, value, ...) up to write_thr.start()
SafeWriteBegin(variable_name, value) ==
    /\ hostPc = "idle"
    /\ ~running
    /\ write_pc = "idle"
    /\ IF ~plc_open \/ variable_name \in disabled_variables
       THEN /\ last_call' = [var |-> variable_name, resp |-> "-", open |-> plc_open,
                             io |-> FALSE, ret |-> FALSE]
            /\ UNCHANGED <<write_pc, write_threads>>
       ELSE /\ Len(write_threads) <= MaxAbandoned
            /\ write_threads' = Append(write_threads,
                                       [var |-> variable_name, value |-> value,
                                        st |-> "run", joined |-> TRUE,
                                        stale |-> FALSE])
            /\ write_pc' = "join"
            /\ last_call' = NoCall
    /\ UNCHANGED <<coreVars, histVars, epi, host_call, errVars, poll2, writers>>

\* self.plc.write_by_name(...) of write thread i returns ("ok") or raises ("raised");
\* a thread nobody joins ends with it
WriteThreadEnds(i, how) ==
    /\ i \in 1..Len(write_threads)
    /\ write_threads[i].st = "run"
    /\ LET t == write_threads[i] IN
       /\ plc' = IF how = "ok" /\ t.var \in PlcVars
                 THEN [plc EXCEPT ![t.var] = t.value] ELSE plc
       /\ write_threads' = IF t.joined THEN [write_threads EXCEPT ![i].st = how]
                           ELSE RemoveAt(write_threads, i)
       /\ epi' = IF how = "ok" /\ t.stale /\ t.var \in PlcVars /\ plc[t.var] # t.value
                 THEN "late" ELSE epi
    /\ UNCHANGED <<plc_open, running, last_trigger_state, measurement_in_progress,
                   last_start_cont_state, last_stop_cont_state, write_timeout_count,
                   disabled_variables, pollPc, trigger, hostPc, current_trigger>>
    /\ UNCHANGED <<histVars, last_call, host_call, errVars, write_pc, poll2, writers>>

\* _safe_write from the return of the join to its return statement: the timeout,
\* the exception or the success branch
SafeWriteReturn ==
    /\ write_pc = "join"
    /\ LET i == Joined
           t == write_threads[i]
           resp == join_result(t)
           rest == RemoveAt(write_threads, i)
       IN /\ join_returns(t)
          /\ write_timeout_count' = safe_write(t.var, resp).count
          /\ disabled_variables' = safe_write(t.var, resp).disabled
          /\ last_call' = [var |-> t.var, resp |-> resp, open |-> plc_open,
                           io |-> TRUE, ret |-> safe_write(t.var, resp).ret]
          /\ write_threads' =
                IF resp = "timeout" THEN [write_threads EXCEPT ![i].joined = FALSE]
                ELSE IF resp = "ok"
                THEN [j \in 1..Len(rest) |->
                        IF rest[j].var = t.var THEN [rest[j] EXCEPT !.stale = TRUE]
                        ELSE rest[j]]
                ELSE rest
    /\ write_pc' = "idle"
    /\ UNCHANGED <<plc, plc_open, running, last_trigger_state, measurement_in_progress,
                   last_start_cont_state, last_stop_cont_state, pollPc, trigger,
                   hostPc, current_trigger>>
    /\ UNCHANGED <<histVars, epi, host_call, errVars, poll2, writers>>

\* connect(), called between two writes while no session is open
ConnectBetweenWrites(conn) ==
    /\ write_pc = "idle"
    /\ ~plc_open
    /\ ConnectCall(conn)

NextWrite ==
    \/ \E conn \in ReadResp : ConnectBetweenWrites(conn)
    \/ \E w \in FineWrites : SafeWriteBegin(w[1], w[2])
    \/ \E i \in 1..(MaxAbandoned + 1), how \in {"ok", "raised"} : WriteThreadEnds(i, how)
    \/ SafeWriteReturn
    \/ ResetDisabledVariables /\ write_pc = "idle"

\* the caller of _safe_write is a running thread and the join's timer runs out:
\* the step that returns from the join is taken
SpecWrite == Init /\ [][NextWrite]_vars /\ WF_vars(SafeWriteReturn)

\* C22: a call of _safe_write that has started its write thread returns to its
\* caller, also when write_by_name never returns: the join ends at the timeout and
\* the call returns False by the timeout branch.
C22_WriteReturns == (write_pc = "join") ~> (write_pc = "idle")

\* a call has returned by the timeout branch and its write thread is still inside
\* write_by_name
C22_Witness ==
    /\ write_pc = "idle"
    /\ last_call.resp = "timeout"
    /\ ~last_call.ret
    /\ \E i \in 1..Len(write_threads) :
          /\ write_threads[i].var = last_call.var
          /\ write_threads[i].st = "run"
          /\ ~write_threads[i].joined

\* C27 as stated: the write of a thread abandoned at its timeout does not change a
\* variable of the controller after a later _safe_write of the same variable has
\* returned True: once busy = False has been written with success, busy stays False
\* until busy = True is written by a later call.
C27_AbandonedWriteNeverLands == epi # "late"

----------------------------------------------------------------------------
(* SpecCycle: Spec with the poll thread scheduled fairly, observed for the *)
(* failures inside a poll cycle.  epi is "failed" from a step of the poll  *)
(* thread in which a read raised, a _safe_write returned False or a        *)
(* callback raised, and "cycle" once the while test of line 528 has then   *)
(* been passed again.                                                      *)

\* what a step of the poll thread came to
ReadFails(rd) == IF rd = "ok" /\ plc_open THEN "step" ELSE "failure"
WriteFails(variable_name, r) == IF safe_write(variable_name, r).ret THEN "step" ELSE "failure"
CallbackFails(cb) == IF cb = "ok" THEN "step" ELSE "failure"
ContinuousFails(rd, cb) ==
    IF /\ rd = "ok"
       /\ plc_open
       /\ ~(/\ cb = "raise"
            /\ \/ plc["start_cont"] /\ ~last_start_cont_state
               \/ plc["stop_cont"] /\ ~last_stop_cont_state)
    THEN "step" ELSE "failure"

ObserveCycle(ev) ==
    /\ epi' = IF ev = "failure" THEN "failed"
              ELSE IF ev = "start" /\ running /\ epi = "failed" THEN "cycle"
              ELSE epi
    /\ UNCHANGED <<dispatches, in_progress_dispatches, seed, last_call, host_call,
                   errVars, threadVars>>

PollCycle ==
    \/ PollTop /\ ObserveCycle("start")
    \/ (\E rd \in ReadResp, conn \in ReadResp :
           PollRead(rd, conn) /\ ObserveCycle(ReadFails(rd)))
    \/ PollEdge /\ ObserveCycle("step")
    \/ PollSetInProgress /\ ObserveCycle("step")
    \/ (\E r \in WriteResp("busy") : PollWriteBusy(r) /\ ObserveCycle(WriteFails("busy", r)))
    \/ (\E r \in WriteResp("ready") : PollWriteReady(r) /\ ObserveCycle(WriteFails("ready", r)))
    \/ (\E cb \in CbResp : PollCallback(cb) /\ ObserveCycle(CallbackFails(cb)))
    \/ PollCallbackError /\ ObserveCycle("step")
    \/ (\E r \in WriteResp("error") : PollWriteError(r) /\ ObserveCycle(WriteFails("error", r)))
    \/ (\E r \in WriteResp("busy") : PollWriteBusyFalse(r) /\ ObserveCycle(WriteFails("busy", r)))
    \/ PollAck /\ ObserveCycle("step")
    \/ (\E rd \in ReadResp, cb \in CbResp :
           PollContinuous(rd, cb) /\ ObserveCycle(ContinuousFails(rd, cb)))
    \/ PollUpdateTest /\ ObserveCycle("step")
    \/ PollAssign /\ ObserveCycle("step")

NextCycle ==
    \/ PollTop /\ ObserveCycle("start")
    \/ (\E rd \in ReadResp, conn \in ReadResp :
           PollRead(rd, conn) /\ ObserveCycle(ReadFails(rd)))
    \/ PollEdge /\ ObserveCycle("step")
    \/ PollSetInProgress /\ ObserveCycle("step")
    \/ (\E r \in WriteResp("busy") : PollWriteBusy(r) /\ ObserveCycle(WriteFails("busy", r)))
    \/ (\E r \in WriteResp("ready") : PollWriteReady(r) /\ ObserveCycle(WriteFails("ready", r)))
    \/ (\E cb \in CbResp : PollCallback(cb) /\ ObserveCycle(CallbackFails(cb)))
    \/ PollCallbackError /\ ObserveCycle("step")
    \/ (\E r \in WriteResp("error") : PollWriteError(r) /\ ObserveCycle(WriteFails("error", r)))
    \/ (\E r \in WriteResp("busy") : PollWriteBusyFalse(r) /\ ObserveCycle(WriteFails("busy", r)))
    \/ PollAck /\ ObserveCycle("step")
    \/ (\E rd \in ReadResp, cb \in CbResp :
           PollContinuous(rd, cb) /\ ObserveCycle(ContinuousFails(rd, cb)))
    \/ PollUpdateTest /\ ObserveCycle("step")
    \/ PollAssign /\ ObserveCycle("step")
    \/ PublishCall /\ ObserveCycle("step")
    \/ (\E rd \in ReadResp : PublishRead(rd)) /\ ObserveCycle("step")
    \/ PublishSync /\ ObserveCycle("step")
    \/ (\E f \in ResultFields : \E r \in FieldResp(f) : PublishField(f, r)) /\ ObserveCycle("step")
    \/ (\E r \in WriteResp("busy") : PublishBusy(r)) /\ ObserveCycle("step")
    \/ (\E r \in WriteResp("ready") : PublishReady(r)) /\ ObserveCycle("step")
    \/ (\E r \in WriteResp("error") : PublishError(r)) /\ ObserveCycle("step")
    \/ PublishClear /\ ObserveCycle("step")
    \/ (\E r \in WriteResp("busy") : PublishFallbackBusy(r)) /\ ObserveCycle("step")
    \/ PublishFallbackClear /\ ObserveCycle("step")
    \/ (\E rd \in ReadResp : PublishFallbackRead(rd)) /\ ObserveCycle("step")
    \/ PublishFallbackSync /\ ObserveCycle("step")
    \/ PublishFallbackDefault /\ ObserveCycle("step")
    \/ PublishReturn /\ ObserveCycle("step")
    \/ (\E conn \in ReadResp, rd \in ReadResp : StartPolling(conn, rd)) /\ ObserveCycle("step")
    \/ StopPolling /\ ObserveCycle("step")
    \/ StopJoined /\ ObserveCycle("step")
    \/ Raise /\ ObserveCycle("step")
    \/ Lower /\ ObserveCycle("step")

\* the poll thread is a thread of its own and each of its statements returns (the
\* reads and the callback return or raise, a write is bounded by its timeout)
SpecCycle == Init /\ [][NextCycle]_vars /\ WF_vars(PollCycle)

\* C23: the poll thread leaves its loop only when running is False, and after a
\* failed trigger read, a failed read of an optional variable, a failed write or a
\* callback that raised, the loop passes its while test again unless running has
\* become False.
C23_FailureDoesNotEndLoop ==
    /\ [](pollPc = "dead" => ~running)
    /\ (epi = "failed") ~> (epi = "cycle" \/ ~running)

\* a failure has been followed by the start of another cycle
C23_Witness == epi = "cycle" /\ running /\ pollPc = "read"

----------------------------------------------------------------------------
(* SpecLost: Spec with the poll thread and the call of                     *)
(* write_measurement_result scheduled fairly, observed for a trigger the   *)
(* controller raises while polling is quiet: polling runs on an open       *)
(* session, no measurement is in progress, no call of                      *)
(* write_measurement_result is under way, last_trigger_state is False and  *)
(* the poll cycle under way has not read True.  epi is "up" from that      *)
(* raise until the callback is invoked; the scenario is left ("none") when *)
(* polling is stopped, when the trigger is lowered and when a trigger read *)
(* of the poll loop fails.                                                 *)

LostStep ==
    IF Stopping THEN "none"
    ELSE IF epi = "up"
    THEN (IF Dispatching \/ Lowering \/ PollReadFailing THEN "none" ELSE "up")
    ELSE IF /\ Raising
            /\ running /\ plc_open /\ pollPc \notin {"none", "dead"}
            /\ ~measurement_in_progress /\ hostPc = "idle"
            /\ ~last_trigger_state /\ ~trigger
    THEN "up" ELSE "none"

ObserveLost ==
    /\ epi' = LostStep
    /\ UNCHANGED <<dispatches, in_progress_dispatches, seed, last_call, host_call,
                   errVars, threadVars>>

PollLost ==
    \/ PollTop /\ ObserveLost
    \/ (\E rd \in ReadResp, conn \in ReadResp : PollRead(rd, conn)) /\ ObserveLost
    \/ PollEdge /\ ObserveLost
    \/ PollSetInProgress /\ ObserveLost
    \/ (\E r \in WriteResp("busy") : PollWriteBusy(r)) /\ ObserveLost
    \/ (\E r \in WriteResp("ready") : PollWriteReady(r)) /\ ObserveLost
    \/ (\E cb \in CbResp : PollCallback(cb)) /\ ObserveLost
    \/ PollCallbackError /\ ObserveLost
    \/ (\E r \in WriteResp("error") : PollWriteError(r)) /\ ObserveLost
    \/ (\E r \in WriteResp("busy") : PollWriteBusyFalse(r)) /\ ObserveLost
    \/ PollAck /\ ObserveLost
    \/ (\E rd \in ReadResp, cb \in CbResp : PollContinuous(rd, cb)) /\ ObserveLost
    \/ PollUpdateTest /\ ObserveLost
    \/ PollAssign /\ ObserveLost

PublishLost ==
    \/ (\E rd \in ReadResp : PublishRead(rd)) /\ ObserveLost
    \/ PublishSync /\ ObserveLost
    \/ (\E f \in ResultFields : \E r \in FieldResp(f) : PublishField(f, r)) /\ ObserveLost
    \/ (\E r \in WriteResp("busy") : PublishBusy(r)) /\ ObserveLost
    \/ (\E r \in WriteResp("ready") : PublishReady(r)) /\ ObserveLost
    \/ (\E r \in WriteResp("error") : PublishError(r)) /\ ObserveLost
    \/ PublishClear /\ ObserveLost
    \/ (\E r \in WriteResp("busy") : PublishFallbackBusy(r)) /\ ObserveLost
    \/ PublishFallbackClear /\ ObserveLost
    \/ (\E rd \in ReadResp : PublishFallbackRead(rd)) /\ ObserveLost
    \/ PublishFallbackSync /\ ObserveLost
    \/ PublishFallbackDefault /\ ObserveLost
    \/ PublishReturn /\ ObserveLost

NextLost ==
    \/ PollTop /\ ObserveLost
    \/ (\E rd \in ReadResp, conn \in ReadResp : PollRead(rd, conn)) /\ ObserveLost
    \/ PollEdge /\ ObserveLost
    \/ PollSetInProgress /\ ObserveLost
    \/ (\E r \in WriteResp("busy") : PollWriteBusy(r)) /\ ObserveLost
    \/ (\E r \in WriteResp("ready") : PollWriteReady(r)) /\ ObserveLost
    \/ (\E cb \in CbResp : PollCallback(cb)) /\ ObserveLost
    \/ PollCallbackError /\ ObserveLost
    \/ (\E r \in WriteResp("error") : PollWriteError(r)) /\ ObserveLost
    \/ (\E r \in WriteResp("busy") : PollWriteBusyFalse(r)) /\ ObserveLost
    \/ PollAck /\ ObserveLost
    \/ (\E rd \in ReadResp, cb \in CbResp : PollContinuous(rd, cb)) /\ ObserveLost
    \/ PollUpdateTest /\ ObserveLost
    \/ PollAssign /\ ObserveLost
    \/ PublishCall /\ ObserveLost
    \/ (\E rd \in ReadResp : PublishRead(rd)) /\ ObserveLost
    \/ PublishSync /\ ObserveLost
    \/ (\E f \in ResultFields : \E r \in FieldResp(f) : PublishField(f, r)) /\ ObserveLost
    \/ (\E r \in WriteResp("busy") : PublishBusy(r)) /\ ObserveLost
    \/ (\E r \in WriteResp("ready") : PublishReady(r)) /\ ObserveLost
    \/ (\E r \in WriteResp("error") : PublishError(r)) /\ ObserveLost
    \/ PublishClear /\ ObserveLost
    \/ (\E r \in WriteResp("busy") : PublishFallbackBusy(r)) /\ ObserveLost
    \/ PublishFallbackClear /\ ObserveLost
    \/ (\E rd \in ReadResp : PublishFallbackRead(rd)) /\ ObserveLost
    \/ PublishFallbackSync /\ ObserveLost
    \/ PublishFallbackDefault /\ ObserveLost
    \/ PublishReturn /\ ObserveLost
    \/ (\E conn \in ReadResp, rd \in ReadResp : StartPolling(conn, rd)) /\ ObserveLost
    \/ StopPolling /\ ObserveLost
    \/ StopJoined /\ ObserveLost
    \/ Raise /\ ObserveLost
    \/ Lower /\ ObserveLost

\* the poll thread keeps taking steps, and a call of write_measurement_result, once
\* made, runs to its end
SpecLost == Init /\ [][NextLost]_vars /\ WF_vars(PollLost) /\ WF_vars(PublishLost)

\* C24 as stated: a trigger the controller raises while polling is quiet and then
\* holds is eventually dispatched, whatever calls of write_measurement_result the
\* host makes in the meantime.
C24_EdgeNotLostToPublish == (epi = "up") ~> (epi # "up")

----------------------------------------------------------------------------
(* SpecFrozen: Spec, observed for a trigger that is held while the trigger *)
(* read of write_measurement_result fails.  epi is "held" from a raise of  *)
(* the trigger with polling running on an open session, "disp" once the    *)
(* callback has been invoked, "pub" once write_measurement_result has then *)
(* been called, "unread" once its trigger read of line 725 has raised,     *)
(* "cleared" once it has cleared measurement_in_progress at line 779, and  *)
(* "again" when the callback is invoked after that.  The scenario is left  *)
(* ("none") when the trigger is lowered, when polling is stopped and when  *)
(* write_measurement_result enters its except clause of line 785.          *)

FrozenStep ==
    IF Lowering \/ Stopping THEN "none"
    ELSE CASE epi = "none" ->
                IF Raising /\ running /\ plc_open /\ hostPc = "idle" THEN "held" ELSE "none"
           [] epi = "held" ->
                IF Dispatching THEN "disp" ELSE IF PublishCalling THEN "none" ELSE "held"
           [] epi = "disp" ->
                IF Dispatching THEN "none"
                ELSE IF PublishCalling THEN (IF hostPc' = "rd" THEN "pub" ELSE "none")
                ELSE "disp"
           [] epi = "pub" ->
                IF Dispatching THEN "none"
                ELSE IF hostPc = "rd" THEN (IF hostPc' = "thickness" THEN "unread" ELSE "none")
                ELSE "pub"
           [] epi = "unread" ->
                IF Dispatching \/ hostPc' = "fbusy" THEN "none"
                ELSE IF measurement_in_progress /\ ~measurement_in_progress' THEN "cleared"
                ELSE "unread"
           [] epi = "cleared" ->
                IF Dispatching THEN "again" ELSE IF PublishCalling THEN "none" ELSE "cleared"
           [] OTHER -> epi

ObserveFrozen ==
    /\ epi' = FrozenStep
    /\ UNCHANGED <<dispatches, in_progress_dispatches, seed, last_call, host_call,
                   errVars, threadVars>>

NextFrozen ==
    \/ PollTop /\ ObserveFrozen
    \/ (\E rd \in ReadResp, conn \in ReadResp : PollRead(rd, conn)) /\ ObserveFrozen
    \/ PollEdge /\ ObserveFrozen
    \/ PollSetInProgress /\ ObserveFrozen
    \/ (\E r \in WriteResp("busy") : PollWriteBusy(r)) /\ ObserveFrozen
    \/ (\E r \in WriteResp("ready") : PollWriteReady(r)) /\ ObserveFrozen
    \/ (\E cb \in CbResp : PollCallback(cb)) /\ ObserveFrozen
    \/ PollCallbackError /\ ObserveFrozen
    \/ (\E r \in WriteResp("error") : PollWriteError(r)) /\ ObserveFrozen
    \/ (\E r \in WriteResp("busy") : PollWriteBusyFalse(r)) /\ ObserveFrozen
    \/ PollAck /\ ObserveFrozen
    \/ (\E rd \in ReadResp, cb \in CbResp : PollContinuous(rd, cb)) /\ ObserveFrozen
    \/ PollUpdateTest /\ ObserveFrozen
    \/ PollAssign /\ ObserveFrozen
    \/ PublishCall /\ ObserveFrozen
    \/ (\E rd \in ReadResp : PublishRead(rd)) /\ ObserveFrozen
    \/ PublishSync /\ ObserveFrozen
    \/ (\E f \in ResultFields : \E r \in FieldResp(f) : PublishField(f, r)) /\ ObserveFrozen
    \/ (\E r \in WriteResp("busy") : PublishBusy(r)) /\ ObserveFrozen
    \/ (\E r \in WriteResp("ready") : PublishReady(r)) /\ ObserveFrozen
    \/ (\E r \in WriteResp("error") : PublishError(r)) /\ ObserveFrozen
    \/ PublishClear /\ ObserveFrozen
    \/ (\E r \in WriteResp("busy") : PublishFallbackBusy(r)) /\ ObserveFrozen
    \/ PublishFallbackClear /\ ObserveFrozen
    \/ (\E rd \in ReadResp : PublishFallbackRead(rd)) /\ ObserveFrozen
    \/ PublishFallbackSync /\ ObserveFrozen
    \/ PublishFallbackDefault /\ ObserveFrozen
    \/ PublishReturn /\ ObserveFrozen
    \/ (\E conn \in ReadResp, rd \in ReadResp : StartPolling(conn, rd)) /\ ObserveFrozen
    \/ StopPolling /\ ObserveFrozen
    \/ StopJoined /\ ObserveFrozen
    \/ Raise /\ ObserveFrozen
    \/ Lower /\ ObserveFrozen

SpecFrozen == Init /\ [][NextFrozen]_vars

\* C25 as stated: when the trigger read of write_measurement_result fails, a trigger
\* held true since before the dispatch is not dispatched again once
\* write_measurement_result has cleared measurement_in_progress.
C25_HeldTriggerNotRedispatched == epi # "again"

----------------------------------------------------------------------------
(* SpecLoops: the calls of start_polling and stop_polling with the join of *)
(* stop_polling bounded, and up to two poll threads.  pollPc and trigger   *)
(* are the position and the local of the thread that is taking steps;      *)
(* poll2 holds those of the other thread, and poll2.current tells whether  *)
(* the thread taking steps is the older one (then poll2 holds              *)
(* self.poll_thread, the thread started last).  The host calls are taken   *)
(* while self.poll_thread is the thread in pollPc.  epi is "two" once the  *)
(* older thread has passed the while test of line 528 with the thread      *)
(* started after it alive.  write_measurement_result is not called here.   *)

Alive(pc) == pc \notin {"none", "dead"}

\* start_polling() while the thread of an earlier start_polling is alive (the join
\* of the stop_polling in between timed out): lines 497-503 start a second thread
StartPollingSecond(conn, rd) ==
    /\ Alive(pollPc)
    /\ ~Alive(poll2.pc)
    /\ ~poll2.current
    /\ ~running
    /\ StartPolling(conn, rd)
    /\ poll2' = IF running'
                THEN [pc |-> pollPc, trigger |-> trigger, current |-> FALSE]
                ELSE poll2
    /\ epi' = epi

\* the scheduler takes the other poll thread
Switch ==
    /\ Alive(poll2.pc) \/ poll2.current
    /\ pollPc' = poll2.pc
    /\ trigger' = poll2.trigger
    /\ poll2' = [pc |-> pollPc, trigger |-> trigger, current |-> ~poll2.current]
    /\ epi' = epi
    /\ UNCHANGED <<plc, plc_open, running, last_trigger_state, measurement_in_progress,
                   last_start_cont_state, last_stop_cont_state, write_timeout_count,
                   disabled_variables, hostPc, current_trigger>>
    /\ UNCHANGED pubEv

LoopsFrame ==
    UNCHANGED <<dispatches, in_progress_dispatches, seed, last_call, host_call,
                errVars, write_pc, write_threads, writers>>

ObserveLoops(ev) ==
    /\ epi' = IF ev = "top" /\ running /\ poll2.current /\ Alive(poll2.pc)
              THEN "two" ELSE epi
    /\ UNCHANGED poll2
    /\ LoopsFrame

NextLoops ==
    \/ PollTop /\ ObserveLoops("top")
    \/ (\E rd \in ReadResp, conn \in ReadResp : PollRead(rd, conn)) /\ ObserveLoops("step")
    \/ PollEdge /\ ObserveLoops("step")
    \/ PollSetInProgress /\ ObserveLoops("step")
    \/ (\E r \in WriteResp("busy") : PollWriteBusy(r)) /\ ObserveLoops("step")
    \/ (\E r \in WriteResp("ready") : PollWriteReady(r)) /\ ObserveLoops("step")
    \/ (\E cb \in CbResp : PollCallback(cb)) /\ ObserveLoops("step")
    \/ PollCallbackError /\ ObserveLoops("step")
    \/ (\E r \in WriteResp("error") : PollWriteError(r)) /\ ObserveLoops("step")
    \/ (\E r \in WriteResp("busy") : PollWriteBusyFalse(r)) /\ ObserveLoops("step")
    \/ PollAck /\ ObserveLoops("step")
    \/ (\E rd \in ReadResp, cb \in CbResp : PollContinuous(rd, cb)) /\ ObserveLoops("step")
    \/ PollUpdateTest /\ ObserveLoops("step")
    \/ PollAssign /\ ObserveLoops("step")
    \/ (\E conn \in ReadResp, rd \in ReadResp : StartPollingFresh(conn, rd))
          /\ ~poll2.current /\ ObserveLoops("step")
    \/ StopPolling /\ ~poll2.current /\ ObserveLoops("step")
    \/ StopJoined /\ ~poll2.current /\ ObserveLoops("step")
    \/ Raise /\ ObserveLoops("step")
    \/ Lower /\ ObserveLoops("step")
    \/ StopJoinTimeout /\ ~poll2.current /\ ObserveLoops("step")
    \/ (\E conn \in ReadResp, rd \in ReadResp : StartPollingSecond(conn, rd)) /\ LoopsFrame
    \/ Switch /\ LoopsFrame

SpecLoops == Init /\ [][NextLoops]_vars

\* C26 as stated: over any sequence of start_polling and stop_polling calls, also
\* when a join has timed out, the thread of an earlier start_polling never passes
\* the while test of its loop while the thread of a later start_polling is alive.
C26_OnePollLoop == epi # "two"

----------------------------------------------------------------------------
(* SpecRestart: Spec with the host publishing as chrocodile_gui.py does    *)
(* (only while is_running()), the poll thread and the call of              *)
(* write_measurement_result scheduled fairly, observed for a restart of    *)
(* polling.  epi is "stopped" from a stop_polling called while             *)
(* measurement_in_progress is True, "restarted" once start_polling has     *)
(* started polling again, "low" once a poll cycle has then read the        *)
(* trigger False, and "up" once the controller has raised the trigger      *)
(* after that, until the callback is invoked.  The scenario is left        *)
(* ("none") when polling is stopped again, when write_measurement_result   *)
(* is called, when the trigger is lowered after the raise and when a       *)
(* trigger read of the poll loop fails after the raise.                    *)

\* _handle_measurement_data: if self.beckhoff_ads_interface and
\* self.beckhoff_ads_interface.is_running(): ... write_measurement_result(plc_data)
PublishCallWhileRunning == running /\ PublishCall

RestartStep ==
    IF Stopping THEN (IF measurement_in_progress THEN "stopped" ELSE "none")
    ELSE IF PublishCalling THEN "none"
    ELSE CASE epi = "stopped" -> IF ~running /\ running' THEN "restarted" ELSE "stopped"
           [] epi = "restarted" -> IF PollReadingFalse THEN "low" ELSE "restarted"
           [] epi = "low" -> IF Dispatching THEN "none" ELSE IF Raising THEN "up" ELSE "low"
           [] epi = "up" ->
                IF Dispatching \/ Lowering \/ PollReadFailing THEN "none" ELSE "up"
           [] OTHER -> "none"

ObserveRestarted ==
    /\ epi' = RestartStep
    /\ UNCHANGED <<dispatches, in_progress_dispatches, seed, last_call, host_call,
                   errVars, threadVars>>

PollRestart ==
    \/ PollTop /\ ObserveRestarted
    \/ (\E rd \in ReadResp, conn \in ReadResp : PollRead(rd, conn)) /\ ObserveRestarted
    \/ PollEdge /\ ObserveRestarted
    \/ PollSetInProgress /\ ObserveRestarted
    \/ (\E r \in WriteResp("busy") : PollWriteBusy(r)) /\ ObserveRestarted
    \/ (\E r \in WriteResp("ready") : PollWriteReady(r)) /\ ObserveRestarted
    \/ (\E cb \in CbResp : PollCallback(cb)) /\ ObserveRestarted
    \/ PollCallbackError /\ ObserveRestarted
    \/ (\E r \in WriteResp("error") : PollWriteError(r)) /\ ObserveRestarted
    \/ (\E r \in WriteResp("busy") : PollWriteBusyFalse(r)) /\ ObserveRestarted
    \/ PollAck /\ ObserveRestarted
    \/ (\E rd \in ReadResp, cb \in CbResp : PollContinuous(rd, cb)) /\ ObserveRestarted
    \/ PollUpdateTest /\ ObserveRestarted
    \/ PollAssign /\ ObserveRestarted

PublishRestart ==
    \/ (\E rd \in ReadResp : PublishRead(rd)) /\ ObserveRestarted
    \/ PublishSync /\ ObserveRestarted
    \/ (\E f \in ResultFields : \E r \in FieldResp(f) : PublishField(f, r)) /\ ObserveRestarted
    \/ (\E r \in WriteResp("busy") : PublishBusy(r)) /\ ObserveRestarted
    \/ (\E r \in WriteResp("ready") : PublishReady(r)) /\ ObserveRestarted
    \/ (\E r \in WriteResp("error") : PublishError(r)) /\ ObserveRestarted
    \/ PublishClear /\ ObserveRestarted
    \/ (\E r \in WriteResp("busy") : PublishFallbackBusy(r)) /\ ObserveRestarted
    \/ PublishFallbackClear /\ ObserveRestarted
    \/ (\E rd \in ReadResp : PublishFallbackRead(rd)) /\ ObserveRestarted
    \/ PublishFallbackSync /\ ObserveRestarted
    \/ PublishFallbackDefault /\ ObserveRestarted
    \/ PublishReturn /\ ObserveRestarted

NextRestart ==
    \/ PollTop /\ ObserveRestarted
    \/ (\E rd \in ReadResp, conn \in ReadResp : PollRead(rd, conn)) /\ ObserveRestarted
    \/ PollEdge /\ ObserveRestarted
    \/ PollSetInProgress /\ ObserveRestarted
    \/ (\E r \in WriteResp("busy") : PollWriteBusy(r)) /\ ObserveRestarted
    \/ (\E r \in WriteResp("ready") : PollWriteReady(r)) /\ ObserveRestarted
    \/ (\E cb \in CbResp : PollCallback(cb)) /\ ObserveRestarted
    \/ PollCallbackError /\ ObserveRestarted
    \/ (\E r \in WriteResp("error") : PollWriteError(r)) /\ ObserveRestarted
    \/ (\E r \in WriteResp("busy") : PollWriteBusyFalse(r)) /\ ObserveRestarted
    \/ PollAck /\ ObserveRestarted
    \/ (\E rd \in ReadResp, cb \in CbResp : PollContinuous(rd, cb)) /\ ObserveRestarted
    \/ PollUpdateTest /\ ObserveRestarted
    \/ PollAssign /\ ObserveRestarted
    \/ PublishCallWhileRunning /\ ObserveRestarted
    \/ (\E rd \in ReadResp : PublishRead(rd)) /\ ObserveRestarted
    \/ PublishSync /\ ObserveRestarted
    \/ (\E f \in ResultFields : \E r \in FieldResp(f) : PublishField(f, r)) /\ ObserveRestarted
    \/ (\E r \in WriteResp("busy") : PublishBusy(r)) /\ ObserveRestarted
    \/ (\E r \in WriteResp("ready") : PublishReady(r)) /\ ObserveRestarted
    \/ (\E r \in WriteResp("error") : PublishError(r)) /\ ObserveRestarted
    \/ PublishClear /\ ObserveRestarted
    \/ (\E r \in WriteResp("busy") : PublishFallbackBusy(r)) /\ ObserveRestarted
    \/ PublishFallbackClear /\ ObserveRestarted
    \/ (\E rd \in ReadResp : PublishFallbackRead(rd)) /\ ObserveRestarted
    \/ PublishFallbackSync /\ ObserveRestarted
    \/ PublishFallbackDefault /\ ObserveRestarted
    \/ PublishReturn /\ ObserveRestarted
    \/ (\E conn \in ReadResp, rd \in ReadResp : StartPolling(conn, rd)) /\ ObserveRestarted
    \/ StopPolling /\ ObserveRestarted
    \/ StopJoined /\ ObserveRestarted
    \/ Raise /\ ObserveRestarted
    \/ Lower /\ ObserveRestarted

\* the poll thread keeps taking steps, and a call of write_measurement_result, once
\* made, runs to its end
SpecRestart ==
    Init /\ [][NextRestart]_vars /\ WF_vars(PollRestart) /\ WF_vars(PublishRestart)

\* C28 as stated: after polling was stopped with a measurement in progress and
\* started again, a trigger that a poll cycle has read False and that the controller
\* then raises and holds is eventually dispatched.
C28_DispatchAfterRestart == (epi = "up") ~> (epi # "up")

----------------------------------------------------------------------------
(* SpecReconnect: Spec with the host also calling disconnect() while       *)
(* polling runs, the poll thread scheduled fairly, observed for the        *)
(* reconnects of the poll loop.  epi is "closed" from a step that closes   *)
(* the session while running stays True, until the poll loop calls         *)
(* connect(); "tried" or "tried2" (in turn) from a connect() of the poll   *)
(* loop that failed, until the poll loop calls connect() again; "none"     *)
(* after a connect() of the poll loop that succeeded and when polling is   *)
(* stopped.  A "+" is added and taken away in turn by the passes of the    *)
(* loop that find the session closed and sleep.                            *)

\* disconnect(), called by the host while polling runs: the method does not look at
\* self.running
DisconnectWhilePolling ==
    /\ hostPc = "idle"
    /\ running
    /\ plc_open
    /\ plc_open' = FALSE
    /\ UNCHANGED <<plc, running, last_trigger_state, measurement_in_progress,
                   last_start_cont_state, last_stop_cont_state, write_timeout_count,
                   disabled_variables, pollPc, trigger, hostPc, current_trigger>>
    /\ UNCHANGED pubEv

\* the step is a failed read of the poll loop that found the session closed: lines
\* 649-661 and 681-693 call self.connect()
PollConnecting == PollReadFailing /\ ~plc_open

ReconnectStep ==
    IF ~running' THEN "none"
    ELSE IF PollConnecting
    THEN (IF plc_open' THEN "none"
          ELSE IF epi \in {"tried", "tried+"} THEN "tried2" ELSE "tried")
    ELSE IF plc_open /\ ~plc_open' THEN "closed"
    ELSE epi

\* one more pass through lines 530-532 (sleep, continue) is marked by a "+", which
\* the next pass takes away
Slept(e) ==
    CASE e = "closed" -> "closed+" [] e = "closed+" -> "closed"
      [] e = "tried" -> "tried+" [] e = "tried+" -> "tried"
      [] e = "tried2" -> "tried2+" [] e = "tried2+" -> "tried2"
      [] OTHER -> e

\* the while test and the test of line 530
ObserveReconnectTop ==
    /\ epi' = IF running /\ ~plc_open THEN Slept(epi) ELSE ReconnectStep
    /\ UNCHANGED <<dispatches, in_progress_dispatches, seed, last_call, host_call,
                   errVars, threadVars>>

ObserveReconnect ==
    /\ epi' = ReconnectStep
    /\ UNCHANGED <<dispatches, in_progress_dispatches, seed, last_call, host_call,
                   errVars, threadVars>>

PollReconnect ==
    \/ PollTop /\ ObserveReconnectTop
    \/ (\E rd \in ReadResp, conn \in ReadResp : PollRead(rd, conn)) /\ ObserveReconnect
    \/ PollEdge /\ ObserveReconnect
    \/ PollSetInProgress /\ ObserveReconnect
    \/ (\E r \in WriteResp("busy") : PollWriteBusy(r)) /\ ObserveReconnect
    \/ (\E r \in WriteResp("ready") : PollWriteReady(r)) /\ ObserveReconnect
    \/ (\E cb \in CbResp : PollCallback(cb)) /\ ObserveReconnect
    \/ PollCallbackError /\ ObserveReconnect
    \/ (\E r \in WriteResp("error") : PollWriteError(r)) /\ ObserveReconnect
    \/ (\E r \in WriteResp("busy") : PollWriteBusyFalse(r)) /\ ObserveReconnect
    \/ PollAck /\ ObserveReconnect
    \/ (\E rd \in ReadResp, cb \in CbResp : PollContinuous(rd, cb)) /\ ObserveReconnect
    \/ PollUpdateTest /\ ObserveReconnect
    \/ PollAssign /\ ObserveReconnect

NextReconnect ==
    \/ PollTop /\ ObserveReconnectTop
    \/ (\E rd \in ReadResp, conn \in ReadResp : PollRead(rd, conn)) /\ ObserveReconnect
    \/ PollEdge /\ ObserveReconnect
    \/ PollSetInProgress /\ ObserveReconnect
    \/ (\E r \in WriteResp("busy") : PollWriteBusy(r)) /\ ObserveReconnect
    \/ (\E r \in WriteResp("ready") : PollWriteReady(r)) /\ ObserveReconnect
    \/ (\E cb \in CbResp : PollCallback(cb)) /\ ObserveReconnect
    \/ PollCallbackError /\ ObserveReconnect
    \/ (\E r \in WriteResp("error") : PollWriteError(r)) /\ ObserveReconnect
    \/ (\E r \in WriteResp("busy") : PollWriteBusyFalse(r)) /\ ObserveReconnect
    \/ PollAck /\ ObserveReconnect
    \/ (\E rd \in ReadResp, cb \in CbResp : PollContinuous(rd, cb)) /\ ObserveReconnect
    \/ PollUpdateTest /\ ObserveReconnect
    \/ PollAssign /\ ObserveReconnect
    \/ PublishCall /\ ObserveReconnect
    \/ (\E rd \in ReadResp : PublishRead(rd)) /\ ObserveReconnect
    \/ PublishSync /\ ObserveReconnect
    \/ (\E f \in ResultFields : \E r \in FieldResp(f) : PublishField(f, r)) /\ ObserveReconnect
    \/ (\E r \in WriteResp("busy") : PublishBusy(r)) /\ ObserveReconnect
    \/ (\E r \in WriteResp("ready") : PublishReady(r)) /\ ObserveReconnect
    \/ (\E r \in WriteResp("error") : PublishError(r)) /\ ObserveReconnect
    \/ PublishClear /\ ObserveReconnect
    \/ (\E r \in WriteResp("busy") : PublishFallbackBusy(r)) /\ ObserveReconnect
    \/ PublishFallbackClear /\ ObserveReconnect
    \/ (\E rd \in ReadResp : PublishFallbackRead(rd)) /\ ObserveReconnect
    \/ PublishFallbackSync /\ ObserveReconnect
    \/ PublishFallbackDefault /\ ObserveReconnect
    \/ PublishReturn /\ ObserveReconnect
    \/ (\E conn \in ReadResp, rd \in ReadResp : StartPolling(conn, rd)) /\ ObserveReconnect
    \/ StopPolling /\ ObserveReconnect
    \/ StopJoined /\ ObserveReconnect
    \/ Raise /\ ObserveReconnect
    \/ Lower /\ ObserveReconnect
    \/ DisconnectWhilePolling /\ ObserveReconnect

\* the poll thread keeps taking steps
SpecReconnect == Init /\ [][NextReconnect]_vars /\ WF_vars(PollReconnect)

\* C29 as stated: while running is True, once the session has been closed the poll
\* loop eventually calls connect(), and once a connect() of the poll loop has failed
\* the poll loop eventually calls connect() again.
C29_PollLoopReconnects ==
    /\ (epi \in {"closed", "closed+"}) ~> (epi \notin {"closed", "closed+"})
    /\ (epi \in {"tried", "tried+"}) ~> (epi \notin {"tried", "tried+"})
    /\ (epi \in {"tried2", "tried2+"}) ~> (epi \notin {"tried2", "tried2+"})

----------------------------------------------------------------------------
(* SpecCont: polling with the controller also setting and clearing its     *)
(* continuous-measurement flags, observed for the first cycle after        *)
(* start_polling.  epi is "armed" from a start_polling that started        *)
(* polling while a flag was True, for as long as the controller leaves the *)
(* flags alone, until the first pass through the block of lines 586-621;   *)
(* "spurious" when that pass finds a rising edge.                          *)
(* write_measurement_result is not called here.                            *)

ContVars == {"start_cont", "stop_cont"}

\* the controller sets or clears one of the flags
SetCont(v) ==
    /\ plc' = [plc EXCEPT ![v] = ~plc[v]]
    /\ UNCHANGED <<plc_open, running, last_trigger_state, measurement_in_progress,
                   last_start_cont_state, last_stop_cont_state, write_timeout_count,
                   disabled_variables, pollPc, trigger, hostPc, current_trigger>>
    /\ UNCHANGED pubEv

ContFrame ==
    UNCHANGED <<dispatches, in_progress_dispatches, seed, last_call, host_call,
                errVars, threadVars>>

\* a step other than the block of lines 586-621
ObserveCont ==
    /\ epi' = IF ~running /\ running'
              THEN (IF \E v \in ContVars : plc[v] THEN "armed" ELSE "none")
              ELSE IF (\E v \in ContVars : plc'[v] # plc[v]) \/ ~running' THEN "none"
              ELSE epi
    /\ ContFrame

\* the block of lines 586-621: whether `start_cont and not self.last_start_cont_state`
\* or `stop_cont and not self.last_stop_cont_state` holds in it
ObserveContinuous(rd) ==
    /\ epi' = IF epi # "armed" THEN epi
              ELSE IF /\ rd = "ok"
                      /\ plc_open
                      /\ \/ plc["start_cont"] /\ ~last_start_cont_state
                         \/ plc["stop_cont"] /\ ~last_stop_cont_state
              THEN "spurious" ELSE "none"
    /\ ContFrame

NextCont ==
    \/ PollTop /\ ObserveCont
    \/ (\E rd \in ReadResp, conn \in ReadResp : PollRead(rd, conn)) /\ ObserveCont
    \/ PollEdge /\ ObserveCont
    \/ PollSetInProgress /\ ObserveCont
    \/ (\E r \in WriteResp("busy") : PollWriteBusy(r)) /\ ObserveCont
    \/ (\E r \in WriteResp("ready") : PollWriteReady(r)) /\ ObserveCont
    \/ (\E cb \in CbResp : PollCallback(cb)) /\ ObserveCont
    \/ PollCallbackError /\ ObserveCont
    \/ (\E r \in WriteResp("error") : PollWriteError(r)) /\ ObserveCont
    \/ (\E r \in WriteResp("busy") : PollWriteBusyFalse(r)) /\ ObserveCont
    \/ PollAck /\ ObserveCont
    \/ (\E rd \in ReadResp, cb \in CbResp :
           PollContinuous(rd, cb) /\ ObserveContinuous(rd))
    \/ PollUpdateTest /\ ObserveCont
    \/ PollAssign /\ ObserveCont
    \/ (\E conn \in ReadResp, rd \in ReadResp : StartPolling(conn, rd)) /\ ObserveCont
    \/ StopPolling /\ ObserveCont
    \/ StopJoined /\ ObserveCont
    \/ Raise /\ ObserveCont
    \/ Lower /\ ObserveCont
    \/ (\E v \in ContVars : SetCont(v)) /\ ObserveCont

SpecCont == Init /\ [][NextCont]_vars

\* C30 as stated: a start or stop flag that is True when start_polling starts
\* polling, and stays as it is, is not found to be a rising edge by the first poll
\* cycle.
C30_NoEdgeOnFirstCycle == epi # "spurious"

----------------------------------------------------------------------------
(* SpecStartEdge: SpecCont, observed for one rising edge of the start      *)
(* flag.  epi is "up" from a step in which the controller sets the start   *)
(* flag while polling runs, "once" when a pass through the block of lines  *)
(* 586-621 has then invoked callback("start_continuous"), "twice" when a   *)
(* later pass has invoked it again.  The scenario is left ("none") when    *)
(* the controller clears the flag and when polling is stopped.             *)

\* a step other than the block of lines 586-621
ObserveStartFlag ==
    /\ epi' = IF ~running' \/ ~plc'["start_cont"] THEN "none"
              ELSE IF ~plc["start_cont"] THEN "up"
              ELSE epi
    /\ ContFrame

\* the block of lines 586-621: `if start_cont and not self.last_start_cont_state`
\* holds and the callback is invoked at line 603
StartInvoked(rd) == rd = "ok" /\ plc_open /\ plc["start_cont"] /\ ~last_start_cont_state

ObserveStartEdge(rd) ==
    /\ epi' = IF ~StartInvoked(rd) THEN epi
              ELSE IF epi = "up" THEN "once"
              ELSE IF epi = "once" THEN "twice"
              ELSE epi
    /\ ContFrame

NextStartEdge ==
    \/ PollTop /\ ObserveStartFlag
    \/ (\E rd \in ReadResp, conn \in ReadResp : PollRead(rd, conn)) /\ ObserveStartFlag
    \/ PollEdge /\ ObserveStartFlag
    \/ PollSetInProgress /\ ObserveStartFlag
    \/ (\E r \in WriteResp("busy") : PollWriteBusy(r)) /\ ObserveStartFlag
    \/ (\E r \in WriteResp("ready") : PollWriteReady(r)) /\ ObserveStartFlag
    \/ (\E cb \in CbResp : PollCallback(cb)) /\ ObserveStartFlag
    \/ PollCallbackError /\ ObserveStartFlag
    \/ (\E r \in WriteResp("error") : PollWriteError(r)) /\ ObserveStartFlag
    \/ (\E r \in WriteResp("busy") : PollWriteBusyFalse(r)) /\ ObserveStartFlag
    \/ PollAck /\ ObserveStartFlag
    \/ (\E rd \in ReadResp, cb \in CbResp :
           PollContinuous(rd, cb) /\ ObserveStartEdge(rd))
    \/ PollUpdateTest /\ ObserveStartFlag
    \/ PollAssign /\ ObserveStartFlag
    \/ (\E conn \in ReadResp, rd \in ReadResp : StartPolling(conn, rd)) /\ ObserveStartFlag
    \/ StopPolling /\ ObserveStartFlag
    \/ StopJoined /\ ObserveStartFlag
    \/ Raise /\ ObserveStartFlag
    \/ Lower /\ ObserveStartFlag
    \/ (\E v \in ContVars : SetCont(v)) /\ ObserveStartFlag

SpecStartEdge == Init /\ [][NextStartEdge]_vars

\* C31 as stated: a start flag that the controller sets and holds invokes
\* callback("start_continuous") at most once, also when the callback raises.
C31_StartDispatchedOnce == epi # "twice"

----------------------------------------------------------------------------
(* SpecRaised: Spec, observed for a trigger that is held after the         *)
(* callback has raised.  epi is "raised" from an invocation of             *)
(* callback("trigger_measurement") that raised while the controller's      *)
(* trigger was True and polling running, for as long as the trigger stays  *)
(* True and polling is not stopped, and "again" when the callback is       *)
(* invoked once more.                                                      *)

RaisedStep ==
    IF Lowering \/ ~running' THEN "none"
    ELSE IF Dispatching
    THEN (IF epi = "raised" THEN "again"
          ELSE IF pollPc' = "exc" /\ plc["trigger"] THEN "raised" ELSE "none")
    ELSE epi

ObserveRaised ==
    /\ epi' = RaisedStep
    /\ UNCHANGED <<dispatches, in_progress_dispatches, seed, last_call, host_call,
                   errVars, threadVars>>

NextRaised ==
    \/ PollTop /\ ObserveRaised
    \/ (\E rd \in ReadResp, conn \in ReadResp : PollRead(rd, conn)) /\ ObserveRaised
    \/ PollEdge /\ ObserveRaised
    \/ PollSetInProgress /\ ObserveRaised
    \/ (\E r \in WriteResp("busy") : PollWriteBusy(r)) /\ ObserveRaised
    \/ (\E r \in WriteResp("ready") : PollWriteReady(r)) /\ ObserveRaised
    \/ (\E cb \in CbResp : PollCallback(cb)) /\ ObserveRaised
    \/ PollCallbackError /\ ObserveRaised
    \/ (\E r \in WriteResp("error") : PollWriteError(r)) /\ ObserveRaised
    \/ (\E r \in WriteResp("busy") : PollWriteBusyFalse(r)) /\ ObserveRaised
    \/ PollAck /\ ObserveRaised
    \/ (\E rd \in ReadResp, cb \in CbResp : PollContinuous(rd, cb)) /\ ObserveRaised
    \/ PollUpdateTest /\ ObserveRaised
    \/ PollAssign /\ ObserveRaised
    \/ PublishCall /\ ObserveRaised
    \/ (\E rd \in ReadResp : PublishRead(rd)) /\ ObserveRaised
    \/ PublishSync /\ ObserveRaised
    \/ (\E f \in ResultFields : \E r \in FieldResp(f) : PublishField(f, r)) /\ ObserveRaised
    \/ (\E r \in WriteResp("busy") : PublishBusy(r)) /\ ObserveRaised
    \/ (\E r \in WriteResp("ready") : PublishReady(r)) /\ ObserveRaised
    \/ (\E r \in WriteResp("error") : PublishError(r)) /\ ObserveRaised
    \/ PublishClear /\ ObserveRaised
    \/ (\E r \in WriteResp("busy") : PublishFallbackBusy(r)) /\ ObserveRaised
    \/ PublishFallbackClear /\ ObserveRaised
    \/ (\E rd \in ReadResp : PublishFallbackRead(rd)) /\ ObserveRaised
    \/ PublishFallbackSync /\ ObserveRaised
    \/ PublishFallbackDefault /\ ObserveRaised
    \/ PublishReturn /\ ObserveRaised
    \/ (\E conn \in ReadResp, rd \in ReadResp : StartPolling(conn, rd)) /\ ObserveRaised
    \/ StopPolling /\ ObserveRaised
    \/ StopJoined /\ ObserveRaised
    \/ Raise /\ ObserveRaised
    \/ Lower /\ ObserveRaised

SpecRaised == Init /\ [][NextRaised]_vars

\* C32 as stated: after the callback has raised on a rising edge, a trigger that
\* stays True is not dispatched again.
C32_NoRedispatchAfterRaise == epi # "again"

----------------------------------------------------------------------------
(* SpecFlags: SpecCont, observed for the transitions of the two flags      *)
(* between successive reads.  epi names the values the last pass through   *)
(* the block of lines 586-621 read for the start and the stop flag ("FF",  *)
(* "FT", "TF", "TT"; "none" before the first pass after start_polling and  *)
(* a pass whose reads raise leaves it alone); it is "missed" once a pass   *)
(* has read a flag True that the pass before read False without invoking   *)
(* the flag's callback.                                                    *)

FlagsRead(s, t) ==
    IF s THEN (IF t THEN "TT" ELSE "TF") ELSE (IF t THEN "FT" ELSE "FF")

\* a step other than the block of lines 586-621
ObserveFlags ==
    /\ epi' = IF epi = "missed" THEN "missed"
              ELSE IF ~running' \/ ~running THEN "none"
              ELSE epi
    /\ ContFrame

\* the block of lines 586-621.  When both callbacks are due and one raises, first
\* tells whether it is the first one, callback("start_continuous")
ObserveFlagsRead(rd, cb, first) ==
    LET s == plc["start_cont"]
        t == plc["stop_cont"]
        start_invoked == s /\ ~last_start_cont_state
        start_raised == /\ start_invoked
                        /\ cb = "raise"
                        /\ first \/ ~(t /\ ~last_stop_cont_state)
        stop_invoked == t /\ ~last_stop_cont_state /\ ~start_raised
        missed == \/ epi \in {"FF", "FT"} /\ s /\ ~start_invoked
                  \/ epi \in {"FF", "TF"} /\ t /\ ~stop_invoked
    IN /\ epi' = IF epi = "missed" \/ ~(rd = "ok" /\ plc_open) THEN epi
                 ELSE IF missed THEN "missed"
                 ELSE FlagsRead(s, t)
       /\ ContFrame

NextFlags ==
    \/ PollTop /\ ObserveFlags
    \/ (\E rd \in ReadResp, conn \in ReadResp : PollRead(rd, conn)) /\ ObserveFlags
    \/ PollEdge /\ ObserveFlags
    \/ PollSetInProgress /\ ObserveFlags
    \/ (\E r \in WriteResp("busy") : PollWriteBusy(r)) /\ ObserveFlags
    \/ (\E r \in WriteResp("ready") : PollWriteReady(r)) /\ ObserveFlags
    \/ (\E cb \in CbResp : PollCallback(cb)) /\ ObserveFlags
    \/ PollCallbackError /\ ObserveFlags
    \/ (\E r \in WriteResp("error") : PollWriteError(r)) /\ ObserveFlags
    \/ (\E r \in WriteResp("busy") : PollWriteBusyFalse(r)) /\ ObserveFlags
    \/ PollAck /\ ObserveFlags
    \/ (\E rd \in ReadResp, cb \in CbResp :
           PollContinuous(rd, cb) /\ \E first \in BOOLEAN : ObserveFlagsRead(rd, cb, first))
    \/ PollUpdateTest /\ ObserveFlags
    \/ PollAssign /\ ObserveFlags
    \/ (\E conn \in ReadResp, rd \in ReadResp : StartPolling(conn, rd)) /\ ObserveFlags
    \/ StopPolling /\ ObserveFlags
    \/ StopJoined /\ ObserveFlags
    \/ Raise /\ ObserveFlags
    \/ Lower /\ ObserveFlags
    \/ (\E v \in ContVars : SetCont(v)) /\ ObserveFlags

SpecFlags == Init /\ [][NextFlags]_vars

\* C33 as stated: a flag that a pass through the block reads True after the pass
\* before read it False has its callback invoked in that pass, whatever
\* measurement_in_progress is, and the block changes neither
\* measurement_in_progress nor last_trigger_state.
C33_FlagEdgesDispatched ==
    /\ [](epi # "missed")
    /\ [][ (pollPc = "cont" /\ pollPc' # pollPc)
              => UNCHANGED <<measurement_in_progress, last_trigger_state>> ]_vars

\* C34: a poll cycle whose trigger read raises goes from the read straight to the
\* top of the loop: it dispatches nothing, writes nothing, leaves
\* last_trigger_state, measurement_in_progress and the continuous edge state as
\* they are, and leaves an open session open (connect() is called, once, only when
\* the session is found closed).
C34_FailedReadCycle ==
    [][ (pollPc = "read" /\ pollPc' \notin {"read", "edge"})
          => /\ pollPc' = "top"
             /\ UNCHANGED <<last_trigger_state, measurement_in_progress,
                            last_start_cont_state, last_stop_cont_state, plc,
                            write_timeout_count, disabled_variables, trigger>>
             /\ plc_open => plc_open'
      ]_vars

\* a trigger read has failed on a closed session and the reconnect has failed too
C34_Witness == epi = "tried" /\ pollPc = "top" /\ running /\ ~plc_open

\* C35 as stated: on a rising edge the poll thread sets measurement_in_progress,
\* then attempts the write busy = True, then the write ready = False, and then
\* invokes callback("trigger_measurement"); measurement_in_progress is True when the
\* callback is invoked.
C35_DispatchSequence ==
    [][ /\ (pollPc = "set" /\ pollPc' # pollPc)
            => (pollPc' = "wbusy" /\ measurement_in_progress')
        /\ (pollPc = "wbusy" /\ pollPc' # pollPc) => pollPc' = "wready"
        /\ (pollPc = "wready" /\ pollPc' # pollPc) => pollPc' = "call"
        /\ (pollPc' = "call" /\ pollPc # pollPc') => pollPc = "wready"
        /\ (pollPc = "call" /\ pollPc' # pollPc) => measurement_in_progress
      ]_vars

\* C36: stop_polling sets running to False and, when it returns, has closed the
\* session; its steps leave last_trigger_state, measurement_in_progress, the
\* continuous edge state, the timeout counters and the disabled set as they were.
C36_StopPollingFrame ==
    [][ /\ (hostPc = "idle" /\ hostPc' = "join")
            => /\ ~running'
               /\ UNCHANGED <<last_trigger_state, measurement_in_progress,
                              last_start_cont_state, last_stop_cont_state,
                              write_timeout_count, disabled_variables>>
        /\ StopReturning
            => /\ ~running'
               /\ ~plc_open'
               /\ UNCHANGED <<last_trigger_state, measurement_in_progress,
                              last_start_cont_state, last_stop_cont_state,
                              write_timeout_count, disabled_variables>>
      ]_vars

\* stop_polling has returned with a trigger recorded, a measurement in progress and
\* a disabled variable, all of them kept
C36_Witness ==
    /\ epi = "stopped"
    /\ hostPc = "idle"
    /\ ~running
    /\ ~plc_open
    /\ last_trigger_state
    /\ measurement_in_progress
    /\ "busy" \in disabled_variables

----------------------------------------------------------------------------
(* SpecStart: the calls of start_polling followed by what they return,     *)
(* with the join of stop_polling bounded and up to two poll threads as in  *)
(* SpecLoops.  host_call is the call of start_polling made in the step     *)
(* just taken, with its return value; connect() inside start_polling is    *)
(* followed open attempt by open attempt as in SpecSession.                *)
(* write_measurement_result is not called here.                            *)

\* what the first open() of start_polling's connect() does here: it returns with
\* the session open, or raises an ADSError that is not retried
StartOpenResp == {"ok", "ads"}

\* the number of poll threads that are alive
Loops == (IF Alive(pollPc) THEN 1 ELSE 0) + (IF Alive(poll2.pc) THEN 1 ELSE 0)

StartFrame ==
    UNCHANGED <<dispatches, in_progress_dispatches, seed, last_call, epi, write_pc,
                write_threads, writers>>

\* start_polling(), called by the host: the return value, self._last_polling_error
\* and self._last_connection_error; connect() is called when no session is open
StartPollingCall(first, retry, rd) ==
    LET c == connect_result(first, retry)
        called == ~running /\ ~plc_open
        refused == called /\ ~c.ret
        started == ~running /\ ~refused
    IN  /\ ~poll2.current
        /\ (started /\ Alive(pollPc)) => ~Alive(poll2.pc)
        /\ StartPolling(IF c.ret THEN "ok" ELSE "fail", rd)
        /\ poll2' = IF started /\ Alive(pollPc)
                    THEN [pc |-> pollPc, trigger |-> trigger, current |-> FALSE]
                    ELSE poll2
        /\ last_connection_error' = IF called THEN c.err ELSE last_connection_error
        /\ last_polling_error' =
               IF refused
               THEN IF last_connection_error' # None
                    THEN <<"Failed to connect to PLC - polling not started", "\n">>
                             \o last_connection_error'
                    ELSE <<"Failed to connect to PLC - polling not started">>
               ELSE IF started /\ rd = "fail"
               THEN <<"Could not read initial trigger state: ", "ADSError">>
               ELSE last_polling_error
        /\ host_call' = [NoHostCall EXCEPT
                           !.op = "start_polling",
                           !.open = plc_open,
                           !.first = IF called THEN first ELSE "-",
                           !.retry = IF called /\ c.opens = 2 THEN retry ELSE "-",
                           !.opens = IF called THEN c.opens ELSE 0,
                           !.ret = <<started>>]
        /\ StartFrame

ObserveStart ==
    /\ host_call' = NoHostCall
    /\ UNCHANGED <<poll2, errVars>>
    /\ StartFrame

NextStart ==
    \/ PollTop /\ ObserveStart
    \/ (\E rd \in ReadResp, conn \in ReadResp : PollRead(rd, conn)) /\ ObserveStart
    \/ PollEdge /\ ObserveStart
    \/ PollSetInProgress /\ ObserveStart
    \/ (\E r \in WriteResp("busy") : PollWriteBusy(r)) /\ ObserveStart
    \/ (\E r \in WriteResp("ready") : PollWriteReady(r)) /\ ObserveStart
    \/ (\E cb \in CbResp : PollCallback(cb)) /\ ObserveStart
    \/ PollCallbackError /\ ObserveStart
    \/ (\E r \in WriteResp("error") : PollWriteError(r)) /\ ObserveStart
    \/ (\E r \in WriteResp("busy") : PollWriteBusyFalse(r)) /\ ObserveStart
    \/ PollAck /\ ObserveStart
    \/ (\E rd \in ReadResp, cb \in CbResp : PollContinuous(rd, cb)) /\ ObserveStart
    \/ PollUpdateTest /\ ObserveStart
    \/ PollAssign /\ ObserveStart
    \/ \E first \in StartOpenResp, retry \in {"ok"}, rd \in ReadResp :
           StartPollingCall(first, retry, rd)
    \/ StopPolling /\ ~poll2.current /\ ObserveStart
    \/ StopJoined /\ ~poll2.current /\ ObserveStart
    \/ Raise /\ ObserveStart
    \/ Lower /\ ObserveStart
    \/ StopJoinTimeout /\ ~poll2.current /\ ObserveStart
    \/ Switch /\ host_call' = NoHostCall /\ UNCHANGED errVars /\ StartFrame

SpecStart == Init /\ [][NextStart]_vars

\* C37: start_polling returns False and starts no poll thread when polling is
\* running; it returns False, leaves running False and records a polling error when
\* no session is open and connect fails; and when it returns True, polling was not
\* running, running is True and exactly one poll thread has been started.
C37_StartPollingReturns ==
    [][ host_call'.op = "start_polling"
          => /\ running
                => /\ host_call'.ret = <<FALSE>>
                   /\ Loops' = Loops
                   /\ UNCHANGED <<pollPc, poll2, running>>
             /\ (~running /\ ~plc_open /\ ~plc_open')
                => /\ host_call'.ret = <<FALSE>>
                   /\ ~running'
                   /\ Loops' = Loops
                   /\ last_polling_error' # None
                   /\ last_polling_error'[1]
                         = "Failed to connect to PLC - polling not started"
             /\ host_call'.ret = <<TRUE>>
                => /\ ~running
                   /\ running'
                   /\ plc_open'
                   /\ pollPc' = "top"
                   /\ Loops' = Loops + 1
             /\ host_call'.ret = <<FALSE>> => running' = running
      ]_vars

\* start_polling has returned True with its thread started, after an earlier call
\* was refused because connect failed, and the next call returns False
C37_Witness ==
    /\ host_call.op = "start_polling"
    /\ host_call.ret = <<TRUE>>
    /\ running
    /\ pollPc = "top"
    /\ last_polling_error # None
    /\ last_polling_error[1] = "Failed to connect to PLC - polling not started"

----------------------------------------------------------------------------
(* SpecRace: _safe_write statement by statement, called by the poll thread *)
(* and by the host thread at the same time on an open session, and         *)
(* reset_disabled_variables called by the host.  writers[c] is the         *)
(* position of thread c inside its call, the variable it writes and the    *)
(* value of the counter it last read.  The augmented assignment of line    *)
(* 211 is a read followed by a store.                                      *)

\* the variables both threads write: busy at lines 553, 569, 768 and 791
RaceVars == {"busy"}

\* the counter is followed up to this value
MaxCount == 4

\* no call of _safe_write or reset_disabled_variables is between two statements
Quiet == \A c \in Callers : writers[c].pc = "idle"

RaceFrame ==
    /\ UNCHANGED <<plc_open, running, last_trigger_state, measurement_in_progress,
                   last_start_cont_state, last_stop_cont_state, pollPc, trigger,
                   hostPc, current_trigger>>
    /\ UNCHANGED <<histVars, last_call, epi, host_call, errVars, write_pc,
                   write_threads, poll2>>

\* connect(), called by the host while no session is open
RaceConnect(conn) ==
    /\ ~plc_open
    /\ ConnectCall(conn)

\* lines 177-204: the tests of the session and of the disabled set, then the write
\* thread is started and joined; a refused call returns False at once
RaceBegin(c, variable_name, value) ==
    /\ writers[c].pc = "idle"
    /\ writers' = IF ~plc_open \/ variable_name \in disabled_variables
                  THEN writers
                  ELSE [writers EXCEPT ![c] = [pc |-> "join", var |-> variable_name,
                                               value |-> value, n |-> 0]]
    /\ UNCHANGED <<plc, write_timeout_count, disabled_variables>>
    /\ RaceFrame

\* lines 204-242: the join returns; the thread is alive (timeout), or write_by_name
\* has raised, or it has returned and the controller holds the value
RaceJoin(c, resp) ==
    /\ writers[c].pc = "join"
    /\ writers' = [writers EXCEPT ![c].pc = IF resp = "timeout" THEN "alive"
                                            ELSE IF resp = "raise" THEN "raised"
                                            ELSE "written"]
    /\ plc' = IF resp = "ok" /\ writers[c].var \in PlcVars
              THEN [plc EXCEPT ![writers[c].var] = writers[c].value] ELSE plc
    /\ UNCHANGED <<write_timeout_count, disabled_variables>>
    /\ RaceFrame

\* lines 209-211: the counter is read
RaceLoad(c) ==
    /\ writers[c].pc = "alive"
    /\ writers' = [writers EXCEPT ![c].pc = "load",
                                  ![c].n = write_timeout_count[writers[c].var]]
    /\ UNCHANGED <<plc, write_timeout_count, disabled_variables>>
    /\ RaceFrame

\* line 211: the value read plus one is stored
RaceStore(c) ==
    /\ writers[c].pc = "load"
    /\ writers[c].n < MaxCount
    /\ write_timeout_count' =
           [write_timeout_count EXCEPT ![writers[c].var] = writers[c].n + 1]
    /\ writers' = [writers EXCEPT ![c].pc = "stored"]
    /\ UNCHANGED <<plc, disabled_variables>>
    /\ RaceFrame

\* line 213: timeout_count = self._write_timeout_count[variable_name]
RaceCount(c) ==
    /\ writers[c].pc = "stored"
    /\ writers' = [writers EXCEPT ![c].pc = "test",
                                  ![c].n = write_timeout_count[writers[c].var]]
    /\ UNCHANGED <<plc, write_timeout_count, disabled_variables>>
    /\ RaceFrame

\* lines 215-229: the variable is disabled when timeout_count has reached the
\* threshold; return False
RaceDisable(c) ==
    /\ writers[c].pc = "test"
    /\ disabled_variables' = IF writers[c].n >= max_consecutive_timeouts
                             THEN disabled_variables \cup {writers[c].var}
                             ELSE disabled_variables
    /\ writers' = [writers EXCEPT ![c] = NoWriter]
    /\ UNCHANGED <<plc, write_timeout_count>>
    /\ RaceFrame

\* lines 231-240: the exception branch resets the counter; return False
RaceException(c) ==
    /\ writers[c].pc = "raised"
    /\ write_timeout_count' = [write_timeout_count EXCEPT ![writers[c].var] = 0]
    /\ writers' = [writers EXCEPT ![c] = NoWriter]
    /\ UNCHANGED <<plc, disabled_variables>>
    /\ RaceFrame

\* lines 242-244: the success branch resets the counter
RaceSuccess(c) ==
    /\ writers[c].pc = "written"
    /\ write_timeout_count' = [write_timeout_count EXCEPT ![writers[c].var] = 0]
    /\ writers' = [writers EXCEPT ![c].pc = "reenable"]
    /\ UNCHANGED <<plc, disabled_variables>>
    /\ RaceFrame

\* lines 247-253: the variable is taken out of the disabled set; return True
RaceReenable(c) ==
    /\ writers[c].pc = "reenable"
    /\ disabled_variables' = disabled_variables \ {writers[c].var}
    /\ writers' = [writers EXCEPT ![c] = NoWriter]
    /\ UNCHANGED <<plc, write_timeout_count>>
    /\ RaceFrame

\* reset_disabled_variables(), called by the host: line 261
RaceClearDisabled ==
    /\ writers["host"].pc = "idle"
    /\ disabled_variables' = {}
    /\ writers' = [writers EXCEPT !["host"].pc = "clear"]
    /\ UNCHANGED <<plc, write_timeout_count>>
    /\ RaceFrame

\* reset_disabled_variables(): line 262
RaceClearCounts ==
    /\ writers["host"].pc = "clear"
    /\ write_timeout_count' = [v \in WriteVars |-> 0]
    /\ writers' = [writers EXCEPT !["host"] = NoWriter]
    /\ UNCHANGED <<plc, disabled_variables>>
    /\ RaceFrame

NextRace ==
    \/ \E conn \in ReadResp : RaceConnect(conn)
    \/ \E c \in Callers, v \in RaceVars, value \in BOOLEAN : RaceBegin(c, v, value)
    \/ \E c \in Callers, resp \in BreakerResp : RaceJoin(c, resp)
    \/ \E c \in Callers : RaceLoad(c)
    \/ \E c \in Callers : RaceStore(c)
    \/ \E c \in Callers : RaceCount(c)
    \/ \E c \in Callers : RaceDisable(c)
    \/ \E c \in Callers : RaceException(c)
    \/ \E c \in Callers : RaceSuccess(c)
    \/ \E c \in Callers : RaceReenable(c)
    \/ RaceClearDisabled
    \/ RaceClearCounts

SpecRace == Init /\ [][NextRace]_vars

\* C38 as stated: whenever no call of _safe_write or reset_disabled_variables is
\* between two of its statements, also after the poll thread and the host thread
\* have written the same variable at the same time, a variable is in the disabled
\* set if and only if its timeout counter is at least the threshold.
C38_DisabledIffThreshold ==
    Quiet => \A v \in WriteVars :
                v \in disabled_variables
                  <=> write_timeout_count[v] >= max_consecutive_timeouts

----------------------------------------------------------------------------
(* SpecAck: Spec, observed for the read of the acknowledgment variable     *)
(* (lines 572-583).  rd is what the read comes to and ack the value the    *)
(* controller holds; epi is, until the next step of the poll thread,       *)
(* "acknowledged" when the read returned True with a measurement in        *)
(* progress (the handshake is logged), "read" when it returned otherwise   *)
(* and "failed" when it raised.                                            *)

ObserveAck(rd, ack) ==
    /\ epi' = IF rd = "ok" /\ plc_open
              THEN IF ack /\ measurement_in_progress THEN "acknowledged" ELSE "read"
              ELSE "failed"
    /\ UNCHANGED <<dispatches, in_progress_dispatches, seed, last_call, host_call,
                   errVars, threadVars>>

ObserveAckStep ==
    /\ epi' = IF pollPc' # pollPc THEN "none" ELSE epi
    /\ UNCHANGED <<dispatches, in_progress_dispatches, seed, last_call, host_call,
                   errVars, threadVars>>

NextAck ==
    \/ PollTop /\ ObserveAckStep
    \/ (\E rd \in ReadResp, conn \in ReadResp : PollRead(rd, conn)) /\ ObserveAckStep
    \/ PollEdge /\ ObserveAckStep
    \/ PollSetInProgress /\ ObserveAckStep
    \/ (\E r \in WriteResp("busy") : PollWriteBusy(r)) /\ ObserveAckStep
    \/ (\E r \in WriteResp("ready") : PollWriteReady(r)) /\ ObserveAckStep
    \/ (\E cb \in CbResp : PollCallback(cb)) /\ ObserveAckStep
    \/ PollCallbackError /\ ObserveAckStep
    \/ (\E r \in WriteResp("error") : PollWriteError(r)) /\ ObserveAckStep
    \/ (\E r \in WriteResp("busy") : PollWriteBusyFalse(r)) /\ ObserveAckStep
    \/ (\E rd \in ReadResp, ack \in BOOLEAN : PollAck /\ ObserveAck(rd, ack))
    \/ (\E rd \in ReadResp, cb \in CbResp : PollContinuous(rd, cb)) /\ ObserveAckStep
    \/ PollUpdateTest /\ ObserveAckStep
    \/ PollAssign /\ ObserveAckStep
    \/ PublishCall /\ ObserveAckStep
    \/ (\E rd \in ReadResp : PublishRead(rd)) /\ ObserveAckStep
    \/ PublishSync /\ ObserveAckStep
    \/ (\E f \in ResultFields : \E r \in FieldResp(f) : PublishField(f, r)) /\ ObserveAckStep
    \/ (\E r \in WriteResp("busy") : PublishBusy(r)) /\ ObserveAckStep
    \/ (\E r \in WriteResp("ready") : PublishReady(r)) /\ ObserveAckStep
    \/ (\E r \in WriteResp("error") : PublishError(r)) /\ ObserveAckStep
    \/ PublishClear /\ ObserveAckStep
    \/ (\E r \in WriteResp("busy") : PublishFallbackBusy(r)) /\ ObserveAckStep
    \/ PublishFallbackClear /\ ObserveAckStep
    \/ (\E rd \in ReadResp : PublishFallbackRead(rd)) /\ ObserveAckStep
    \/ PublishFallbackSync /\ ObserveAckStep
    \/ PublishFallbackDefault /\ ObserveAckStep
    \/ PublishReturn /\ ObserveAckStep
    \/ (\E conn \in ReadResp, rd \in ReadResp : StartPolling(conn, rd)) /\ ObserveAckStep
    \/ StopPolling /\ ObserveAckStep
    \/ StopJoined /\ ObserveAckStep
    \/ Raise /\ ObserveAckStep
    \/ Lower /\ ObserveAckStep

SpecAck == Init /\ [][NextAck]_vars

\* C39: the read of the acknowledgment variable, whatever it returns and also when
\* it raises, leaves measurement_in_progress, last_trigger_state, the variables of
\* the controller and the breaker as they were; measurement_in_progress goes from
\* True to False only in write_measurement_result and in the except clause that
\* follows a callback that raised.
C39_AckChangesNothing ==
    [][ /\ (pollPc = "ack" /\ pollPc' # pollPc)
            => /\ pollPc' = "cont"
               /\ epi' \in {"acknowledged", "read", "failed"}
               /\ UNCHANGED <<measurement_in_progress, last_trigger_state, plc,
                              write_timeout_count, disabled_variables>>
        /\ (measurement_in_progress /\ ~measurement_in_progress')
            => \/ pollPc = "exc" /\ pollPc' = "werror"
               \/ /\ pollPc' = pollPc
                  /\ hostPc' # hostPc
                  /\ Len(pubEv') > 0
                  /\ pubEv'[Len(pubEv')] = "clear"
      ]_vars

\* the acknowledgment has just been read True with a measurement in progress, and
\* the measurement is still in progress
C39_Witness ==
    /\ epi = "acknowledged"
    /\ pollPc = "cont"
    /\ measurement_in_progress
    /\ last_trigger_state

====
